---- MODULE Spec2Model ----
(***************************************************************************)
(* Bare-citation scanner of bibtex_mcp (BibTexClient.scan_bare_citations). *)
(* Text is modelled as sequences of one-character strings; positions are   *)
(* 1-based, and a regular expression is modelled by the set of positions   *)
(* at which a match starting at a given position can end.                  *)
(***************************************************************************)
EXTENDS Integers, Sequences, FiniteSets, TLC

VARIABLES content, lines, line_num, in_acknowledgments, in_bibliography,
          citations, scanned, pc,
          exists, error, response, history,
          tool, args, reply, retry_after, bib,
          requests, doi_client, procs

vars == <<content, lines, line_num, in_acknowledgments, in_bibliography,
          citations, scanned, pc, exists, error, response, history,
          tool, args, reply, retry_after, bib, requests, doi_client, procs>>

\* the locals of one scan_bare_citations call and the document it reads
scanVars == <<content, lines, line_num, in_acknowledgments, in_bibliography,
              citations, scanned>>

\* what only the other tools use
callVars == <<tool, args, reply, retry_after, bib, requests, doi_client,
              procs>>

\* what a tool call leaves alone while the client method runs
toolVars == <<exists, error, response, history>>

(***************************************************************************)
(* Bounds of the model.                                                    *)
(***************************************************************************)
MaxLines == 3

MaxTokens == 4

MaxPhrases == 2

MaxNotes == 2

MaxCalls == 3

MaxResults == 2

(***************************************************************************)
(* Characters and character classes used by the patterns.                  *)
(***************************************************************************)
Chars(str) == [i \in 1..Len(str) |-> SubSeq(str, i, i)]

UpperLetters == Chars("ABCDEFGHIJKLMNOPQRSTUVWXYZ")

LowerLetters == Chars("abcdefghijklmnopqrstuvwxyz")

Upper == {UpperLetters[i] : i \in 1..26}

Lower == {LowerLetters[i] : i \in 1..26}

Digit == {"0", "1", "2", "3", "4", "5", "6", "7", "8", "9"}

Space == {" ", "\t", "\r", "\f"}

NameChar == Upper \cup Lower \cup {"'", "-"}

HyphenSpace == Space \cup {"-"}

\* literal words of the patterns
Forthcoming == Chars("forthcoming")

BeginMarker == Chars("\\begin{thebibliography}")

EndMarker == Chars("\\end{thebibliography}")

CiteCommand == Chars("\\cite")

ToLower(c) == IF c \in Upper
              THEN LowerLetters[CHOOSE i \in 1..26 : UpperLetters[i] = c]
              ELSE c

LowerCase(s) == [i \in 1..Len(s) |-> ToLower(s[i])]

(***************************************************************************)
(* String primitives.                                                      *)
(***************************************************************************)
\* the non-empty word w occurs in s at position i
HasAt(s, i, w) == /\ i \in 1..Len(s)
                  /\ s[i] = w[1]
                  /\ i + Len(w) - 1 <= Len(s)
                  /\ \A k \in 2..Len(w) : s[i + k - 1] = w[k]

\* `w in s`
Contains(s, w) == \E i \in 1..Len(s) : HasAt(s, i, w)

\* s.find(w) as a 1-based position, 0 when absent
Find(s, w) == IF Contains(s, w)
              THEN CHOOSE i \in 1..Len(s) :
                     HasAt(s, i, w) /\ \A k \in 1..(i - 1) : ~HasAt(s, k, w)
              ELSE 0

\* s.endswith(w)
EndsWith(s, w) == Len(w) <= Len(s) /\ HasAt(s, Len(s) - Len(w) + 1, w)

\* first position >= i whose character is not in class C (Len(s)+1 if none)
RECURSIVE RunEnd(_, _, _)
RunEnd(s, i, C) == IF i <= Len(s) /\ s[i] \in C THEN RunEnd(s, i + 1, C) ELSE i

\* last position <= i whose character is not in class C (0 if none)
RECURSIVE RunStart(_, _, _)
RunStart(s, i, C) == IF i >= 1 /\ s[i] \in C THEN RunStart(s, i - 1, C) ELSE i

\* s.strip()
Strip(s) == SubSeq(s, RunEnd(s, 1, Space), RunStart(s, Len(s), Space))

\* what str.strip() and \s take as whitespace
White == Space \cup {"\n"}

\* text.split(): the runs of non-whitespace
RECURSIVE Words(_)
Words(s) ==
    LET from == RunEnd(s, 1, White)
        to == CHOOSE j \in from..(Len(s) + 1) :
                 /\ j = Len(s) + 1 \/ s[j] \in White
                 /\ \A k \in from..(j - 1) : s[k] \notin White
    IN IF from > Len(s) THEN <<>>
       ELSE <<SubSeq(s, from, to - 1)>> \o Words(SubSeq(s, to, Len(s)))

\* content.split("\n")
RECURSIVE Split(_)
Split(s) == LET nl == Find(s, <<"\n">>)
            IN IF nl = 0 THEN <<s>>
               ELSE <<SubSeq(s, 1, nl - 1)>> \o Split(SubSeq(s, nl + 1, Len(s)))

\* "\n".join(ls), the file content whose split is ls
RECURSIVE Join(_)
Join(ls) == IF Len(ls) = 0 THEN <<>>
            ELSE IF Len(ls) = 1 THEN ls[1]
            ELSE ls[1] \o <<"\n">> \o Join(Tail(ls))

RECURSIVE Concat(_)
Concat(ts) == IF Len(ts) = 0 THEN <<>> ELSE Head(ts) \o Concat(Tail(ts))

(***************************************************************************)
(* Regular-expression building blocks.  Each takes the text s and a set S  *)
(* of positions reached so far and returns the set of positions reachable  *)
(* after matching one more piece (all backtracking alternatives).          *)
(***************************************************************************)
\* a literal word
Lit(s, S, w) == {j + Len(w) : j \in {k \in S : HasAt(s, k, w)}}

\* C+ for a character class C
Plus(s, S, C) == UNION {(j + 1)..RunEnd(s, j, C) : j \in S}

\* \s+
SpacePlus(s, S) == Plus(s, S, Space)

\* \s*
SpaceStar(s, S) == S \cup SpacePlus(s, S)

\* first position >= i holding character ch (Len(s)+1 if none)
RECURSIVE SkipTo(_, _, _)
SkipTo(s, i, ch) == IF i <= Len(s) /\ s[i] # ch THEN SkipTo(s, i + 1, ch) ELSE i

\* [^)]*\)
ToClose(s, S) == {SkipTo(s, j, ")") + 1 : j \in {k \in S : SkipTo(s, k, ")") <= Len(s)}}

\* [A-Z][a-zA-Z'-]+
NameHead(s, S) ==
    UNION {IF j <= Len(s) /\ s[j] \in Upper
           THEN (j + 2)..RunEnd(s, j + 1, NameChar)
           ELSE {} : j \in S}

\* [-\s]+[a-z]+
LowerWord(s, S) == Plus(s, Plus(s, S, HyphenSpace), Lower)

\* (?:[-\s]+[a-z]+)*
RECURSIVE LowerWords(_, _)
LowerWords(s, S) == LET T == S \cup LowerWord(s, S)
                    IN IF T = S THEN S ELSE LowerWords(s, T)

\* [A-Z][a-zA-Z'-]+(?:[-\s]+[a-z]+)*
NameToken(s, S) == LowerWords(s, NameHead(s, S))

\* (?:\s+et\s+al\.?)?
EtAlOpt(s, S) ==
    LET al == Lit(s, SpacePlus(s, Lit(s, SpacePlus(s, S), <<"e", "t">>)), <<"a", "l">>)
    IN S \cup al \cup Lit(s, al, <<".">>)

\* (?:forthcoming|\d{4}[a-z]?)
YearExpr(s, S) ==
    LET d4 == {j + 4 : j \in {k \in S : /\ k + 3 <= Len(s)
                                        /\ \A m \in 0..3 : s[k + m] \in Digit}}
    IN Lit(s, S, Forthcoming) \cup d4
         \cup {j + 1 : j \in {k \in d4 : k <= Len(s) /\ s[k] \in Lower}}

\* (?:,\s*(?:p+\.?|pp\.?|ch\.?)\s*\d+(?:\-\d+)?)?
LocatorOpt(s, S) ==
    LET c   == SpaceStar(s, Lit(s, S, <<",">>))
        mk  == Plus(s, c, {"p"}) \cup Lit(s, c, <<"p", "p">>) \cup Lit(s, c, <<"c", "h">>)
        mkd == mk \cup Lit(s, mk, <<".">>)
        d1  == Plus(s, SpaceStar(s, mkd), Digit)
    IN S \cup d1 \cup Plus(s, Lit(s, d1, <<"-">>), Digit)

(***************************************************************************)
(* NARRATIVE_PATTERN                                                       *)
(***************************************************************************)
\* (?:,\s+and|\s+and|,|\s+&)\s+ followed by a name token
NarrativeJoin(s, S) ==
    LET sep == Lit(s, SpacePlus(s, Lit(s, S, <<",">>)), <<"a", "n", "d">>)
                 \cup Lit(s, SpacePlus(s, S), <<"a", "n", "d">>)
                 \cup Lit(s, S, <<",">>)
                 \cup Lit(s, SpacePlus(s, S), <<"&">>)
    IN NameToken(s, SpacePlus(s, sep))

RECURSIVE NarrativeJoins(_, _)
NarrativeJoins(s, S) == LET T == S \cup NarrativeJoin(s, S)
                        IN IF T = S THEN S ELSE NarrativeJoins(s, T)

\* end positions of NARRATIVE_PATTERN matched at position i
NarrativeEnds(s, i) ==
    LET first   == NameToken(s, {i})
        authors == EtAlOpt(s, NarrativeJoins(s, first))
        open    == Lit(s, SpaceStar(s, authors), <<"(">>)
        year    == YearExpr(s, open)
    IN IF first = {} \/ open = {} \/ year = {} THEN {}
       ELSE ToClose(s, LocatorOpt(s, year))

(***************************************************************************)
(* PARENTHETICAL_PATTERN                                                   *)
(***************************************************************************)
\* (?:\s+and\s+|\s+&\s+|,\s+|\s+(?=[A-Z])) followed by [A-Z][a-zA-Z'-]+
ParentheticalJoin(s, S) ==
    LET sp  == SpacePlus(s, S)
        sep == SpacePlus(s, Lit(s, sp, <<"a", "n", "d">>))
                 \cup SpacePlus(s, Lit(s, sp, <<"&">>))
                 \cup SpacePlus(s, Lit(s, S, <<",">>))
                 \cup {j \in sp : j <= Len(s) /\ s[j] \in Upper}
    IN NameHead(s, sep)

RECURSIVE ParentheticalJoins(_, _)
ParentheticalJoins(s, S) == LET T == S \cup ParentheticalJoin(s, S)
                            IN IF T = S THEN S ELSE ParentheticalJoins(s, T)

\* end positions of PARENTHETICAL_PATTERN matched at position i
ParentheticalEnds(s, i) ==
    LET filler  == IF HasAt(s, i, <<"(">>) THEN (i + 1)..SkipTo(s, i + 1, ")") ELSE {}
        first   == NameHead(s, filler)
        authors == EtAlOpt(s, ParentheticalJoins(s, first))
        comma   == SpaceStar(s, authors)
        year    == SpaceStar(s, comma \cup Lit(s, comma, <<",">>))
    IN IF first = {} THEN {} ELSE ToClose(s, YearExpr(s, year))

(***************************************************************************)
(* re.finditer: successive leftmost matches, each search resuming where    *)
(* the previous match ended.  Every match of either pattern ends at the    *)
(* first ")" after its "(", so the set of ends is empty or a singleton.    *)
(***************************************************************************)
MatchEnd(ends) == IF ends = {} THEN 0 ELSE CHOOSE e \in ends : TRUE

\* a search that resumes one character after the previous match began
ResumeAfterStart(start, end) == start + 1

ResumeAt(start, end) == end

RECURSIVE NarrativeMatches(_, _)
NarrativeMatches(s, pos) ==
    IF pos > Len(s) THEN <<>>
    ELSE LET e == MatchEnd(NarrativeEnds(s, pos))
         IN IF e = 0 THEN NarrativeMatches(s, pos + 1)
            ELSE <<[start |-> pos, end |-> e]>> \o NarrativeMatches(s, ResumeAt(pos, e))

RECURSIVE ParentheticalMatches(_, _)
ParentheticalMatches(s, pos) ==
    IF pos > Len(s) THEN <<>>
    ELSE LET e == MatchEnd(ParentheticalEnds(s, pos))
         IN IF e = 0 THEN ParentheticalMatches(s, pos + 1)
            ELSE <<[start |-> pos, end |-> e]>> \o ParentheticalMatches(s, ResumeAt(pos, e))

(***************************************************************************)
(* Author extraction.  The name-token pattern is used on its own here, so  *)
(* its match is the greedy one: the longest run of name characters, then   *)
(* as many lowercase continuation words as follow.                         *)
(***************************************************************************)
RECURSIVE GreedyLowerWords(_, _)
GreedyLowerWords(s, j) ==
    LET a == RunEnd(s, j, HyphenSpace)
    IN IF a > j /\ a <= Len(s) /\ s[a] \in Lower
       THEN GreedyLowerWords(s, RunEnd(s, a, Lower))
       ELSE j

\* end of the match of the name-token pattern at position i, 0 if none
NameTokenEnd(s, i) ==
    IF i <= Len(s) /\ s[i] \in Upper /\ RunEnd(s, i + 1, NameChar) > i + 1
    THEN GreedyLowerWords(s, RunEnd(s, i + 1, NameChar))
    ELSE 0

\* re.finditer(name-token pattern, t) as the sequence of matched strings
RECURSIVE NameTokenMatches(_, _)
NameTokenMatches(t, pos) ==
    IF pos > Len(t) THEN <<>>
    ELSE LET e == NameTokenEnd(t, pos)
         IN IF e = 0 THEN NameTokenMatches(t, pos + 1)
            ELSE <<SubSeq(t, pos, e - 1)>> \o NameTokenMatches(t, e)

InSeq(seq, x) == \E i \in 1..Len(seq) : seq[i] = x

\* "Conley and" -> "Conley"
StripAnd(a) == IF EndsWith(a, <<" ", "a", "n", "d">>)
               THEN Strip(SubSeq(a, 1, Len(a) - 4))
               ELSE a

NarrativeSkipWords == {<<"e", "t">>, <<"a", "l">>, <<"a", "n", "d">>, <<"&">>}

RECURSIVE NarrativeCollect(_, _)
NarrativeCollect(toks, authors) ==
    IF Len(toks) = 0 THEN authors
    ELSE LET potential_author == StripAnd(Strip(Head(toks)))
         IN NarrativeCollect(Tail(toks),
              IF /\ LowerCase(potential_author) \notin NarrativeSkipWords
                 /\ ~InSeq(authors, potential_author)
              THEN Append(authors, potential_author)
              ELSE authors)

\* authors of a narrative match
NarrativeAuthors(text) ==
    LET year_paren_idx == Find(text, <<"(">>)
        author_text    == Strip(SubSeq(text, 1, year_paren_idx - 1))
    IN NarrativeCollect(NameTokenMatches(author_text, 1), <<>>)

\* re.sub(r"\s+et\s+al\.?", "", t)
EtAlEnd(t, pos) ==
    LET a == RunEnd(t, pos, Space)
        b == RunEnd(t, a + 2, Space)
    IN IF a > pos /\ HasAt(t, a, <<"e", "t">>) /\ b > a + 2 /\ HasAt(t, b, <<"a", "l">>)
       THEN IF HasAt(t, b + 2, <<".">>) THEN b + 3 ELSE b + 2
       ELSE 0

RECURSIVE RemoveEtAl(_, _)
RemoveEtAl(t, pos) ==
    IF pos > Len(t) THEN <<>>
    ELSE LET e == EtAlEnd(t, pos)
         IN IF e = 0 THEN <<t[pos]>> \o RemoveEtAl(t, pos + 1)
            ELSE RemoveEtAl(t, e)

\* end of a separator (?:\s+and\s+|\s+&\s+|,\s+|\s+(?=[A-Z])) at pos, 0 if none
AuthorSepEnd(t, pos) ==
    LET sp == RunEnd(t, pos, Space)
    IN IF sp > pos /\ HasAt(t, sp, <<"a", "n", "d">>) /\ RunEnd(t, sp + 3, Space) > sp + 3
         THEN RunEnd(t, sp + 3, Space)
       ELSE IF sp > pos /\ HasAt(t, sp, <<"&">>) /\ RunEnd(t, sp + 1, Space) > sp + 1
         THEN RunEnd(t, sp + 1, Space)
       ELSE IF HasAt(t, pos, <<",">>) /\ RunEnd(t, pos + 1, Space) > pos + 1
         THEN RunEnd(t, pos + 1, Space)
       ELSE IF sp > pos /\ sp <= Len(t) /\ t[sp] \in Upper
         THEN sp
       ELSE 0

\* re.split(separator, t)
RECURSIVE SplitAuthors(_, _, _)
SplitAuthors(t, pos, from) ==
    IF pos > Len(t) THEN <<SubSeq(t, from, Len(t))>>
    ELSE LET e == AuthorSepEnd(t, pos)
         IN IF e = 0 THEN SplitAuthors(t, pos + 1, from)
            ELSE <<SubSeq(t, from, pos - 1)>> \o SplitAuthors(t, e, e)

\* re.match(r"^\d{4}|forthcoming", a)
LooksLikeYear(a) == \/ Len(a) >= 4 /\ \A m \in 1..4 : a[m] \in Digit
                    \/ HasAt(a, 1, Forthcoming)

ParentheticalSkipWords == {<<"e", "t">>, <<"a", "l">>}

\* first acceptable new name token of one part; stops at the first one added
RECURSIVE ParentheticalTake(_, _)
ParentheticalTake(toks, authors) ==
    IF Len(toks) = 0 THEN authors
    ELSE LET potential_author == Strip(Head(toks))
         IN IF /\ ~LooksLikeYear(potential_author)
               /\ LowerCase(potential_author) \notin ParentheticalSkipWords
               /\ ~InSeq(authors, potential_author)
            THEN Append(authors, potential_author)
            ELSE ParentheticalTake(Tail(toks), authors)

RECURSIVE ParentheticalCollect(_, _)
ParentheticalCollect(parts, authors) ==
    IF Len(parts) = 0 THEN authors
    ELSE ParentheticalCollect(Tail(parts),
            ParentheticalTake(NameTokenMatches(Strip(Head(parts)), 1), authors))

\* authors of a parenthetical match
ParentheticalAuthors(text) ==
    LET inner         == SubSeq(text, 2, Len(text) - 1)
        content_clean == RemoveEtAl(inner, 1)
    IN ParentheticalCollect(SplitAuthors(content_clean, 1, 1), <<>>)

(***************************************************************************)
(* Year-range exclusions.                                                  *)
(***************************************************************************)
\* t has the shape DDDD-DDDD at position i
RangeAt(t, i) == /\ i + 8 <= Len(t)
                 /\ \A m \in 0..3 : t[i + m] \in Digit
                 /\ t[i + 4] = "-"
                 /\ \A m \in 5..8 : t[i + m] \in Digit

\* the range exclusion left out
NarrativeYearRangeOff(text) == FALSE

\* re.search(r"\(\d{4}\-\d{4}\)", text)
NarrativeYearRange(text) ==
    \E i \in 1..Len(text) :
        text[i] = "(" /\ RangeAt(text, i + 1) /\ HasAt(text, i + 10, <<")">>)

\* re.match(r"^\d{4}\-\d{4}$", content.strip())
ParentheticalYearRange(text) ==
    LET stripped == Strip(SubSeq(text, 2, Len(text) - 1))
    IN Len(stripped) = 9 /\ RangeAt(stripped, 1)

(***************************************************************************)
(* Prefix and suffix of a parenthetical match, taken from its content.     *)
(***************************************************************************)
\* (see|e\.g\.|i\.e\.|cf\.), matched without regard to letter case
SignalPhrases == {Chars("see"), Chars("e.g."), Chars("i.e."), Chars("cf.")}

\* re.match(r"^(see|e\.g\.|i\.e\.|cf\.)\s+", content, re.IGNORECASE):
\* group 1 as written in the content, empty when there is no match
Prefix(inner) ==
    LET hits == {w \in SignalPhrases :
                    /\ HasAt(LowerCase(inner), 1, w)
                    /\ Len(inner) > Len(w)
                    /\ inner[Len(w) + 1] \in Space}
    IN IF hits = {} THEN <<>>
       ELSE SubSeq(inner, 1, Len(CHOOSE w \in hits : TRUE))

\* re.search(r";\s*(.+)$", content): group 1, stripped.  The search stops at
\* the leftmost ";" that has a character after it; \s* gives back its last
\* character when nothing else is left for (.+).
Suffix(inner) ==
    LET semi == Find(inner, <<";">>)
        rest == RunEnd(inner, semi + 1, Space)
    IN IF semi = 0 \/ semi = Len(inner) THEN <<>>
       ELSE IF rest > Len(inner) THEN Strip(SubSeq(inner, Len(inner), Len(inner)))
       ELSE Strip(SubSeq(inner, rest, Len(inner)))

(***************************************************************************)
(* Citations of one scannable line: the narrative pass, then the           *)
(* parenthetical pass.  column is the 0-based offset of the match.         *)
(***************************************************************************)
\* match.group(0) without its first character
MatchTextShifted(line, m) == SubSeq(line, m.start + 1, m.end - 1)

MatchText(line, m) == SubSeq(line, m.start, m.end - 1)

\* content = text[1:-1]
ParenInner(text) == SubSeq(text, 2, Len(text) - 1)

NarrativeCitations(line, n) ==
    LET kept == SelectSeq(NarrativeMatches(line, 1),
                          LAMBDA m : ~NarrativeYearRange(MatchText(line, m)))
    IN [k \in 1..Len(kept) |->
          [text          |-> MatchText(line, kept[k]),
           line          |-> n,
           column        |-> kept[k].start - 1,
           authors       |-> NarrativeAuthors(MatchText(line, kept[k])),
           citation_type |-> "narrative",
           prefix        |-> <<>>,
           suffix        |-> <<>>]]

ParentheticalCitations(line, n) ==
    LET kept == SelectSeq(ParentheticalMatches(line, 1),
                          LAMBDA m : ~ParentheticalYearRange(MatchText(line, m)))
    IN [k \in 1..Len(kept) |->
          [text          |-> MatchText(line, kept[k]),
           line          |-> n,
           column        |-> kept[k].start - 1,
           authors       |-> ParentheticalAuthors(MatchText(line, kept[k])),
           citation_type |-> "parenthetical",
           prefix        |-> Prefix(ParenInner(MatchText(line, kept[k]))),
           suffix        |-> Suffix(ParenInner(MatchText(line, kept[k])))]]

LineCitations(line, n) == NarrativeCitations(line, n) \o ParentheticalCitations(line, n)

(***************************************************************************)
(* Section tracker and line filter.                                        *)
(***************************************************************************)
\* re.search(r"##\s+", line): positions just after "##" and its whitespace
HeadingEnds(line) == SpacePlus(line, Lit(line, 1..Len(line), <<"#", "#">>))

HeadingMark(line) == HeadingEnds(line) # {}

\* re.search(r"##\s+.*[Aa]cknowledg", line)
AckStart(line) ==
    LET any == UNION {j..(Len(line) + 1) : j \in HeadingEnds(line)}
        aA  == Lit(line, any, <<"A">>) \cup Lit(line, any, <<"a">>)
    IN Lit(line, aA, <<"c", "k", "n", "o", "w", "l", "e", "d", "g">>) # {}

\* the section never ends
AckEndNever(in_ack, line) == FALSE

\* the flag is set and a two-hash heading follows
AckEnd(in_ack, line) == in_ack /\ HeadingMark(line)

BibBegin(line) == Contains(line, BeginMarker)

BibEnd(line) == Contains(line, EndMarker)

\* only the bibliography flag is consulted
SectionSkipBibOnly(in_ack, in_bib) == in_bib

\* if in_acknowledgments or in_bibliography: continue
SectionSkip(in_ack, in_bib) == in_ack \/ in_bib

\* only the LaTeX command is looked for
AlreadyCitedLatexOnly(line) == Contains(line, CiteCommand)

\* if "@" in line or "\\cite" in line: continue
AlreadyCited(line) == Contains(line, <<"@">>) \/ Contains(line, CiteCommand)

(***************************************************************************)
(* Documents.  Multi-line documents are built from DocLines, which hold    *)
(* every kind of marker alone and combined; one-line documents are built   *)
(* from up to MaxTokens citation fragments.                                *)
(***************************************************************************)
DocLines ==
    { Chars("## Acknowledgments Suri (2011)"),
      Chars("## ACKNOWLEDGMENTS Suri (2011)"),
      Chars("## Intro Suri (2011)"),
      Chars("(Suri 2011) Suri (2010-2015) Udry (2010) Rose (2011)"),
      Chars("\\begin{thebibliography} Suri (2011)"),
      Chars("\\end{thebibliography} Suri (2011)"),
      Chars("## Results @suri Suri (2011)"),
      Chars("\\cite{suri} Suri (2011)"),
      Chars("## Acknowledgments \\begin{thebibliography} @x") }

Tokens ==
    { Chars("Smith"), Chars(" and "), Chars("And"), Chars("(2010)"),
      Chars("("), Chars(" 2010)") }

SeqsUpTo(S, n) == UNION {[1..k -> S] : k \in 1..n}

Documents == {Join(d) : d \in SeqsUpTo(DocLines, MaxLines)}
               \cup {Concat(ts) : ts \in SeqsUpTo(Tokens, MaxTokens)}

\* no tool response yet
Pending == [status |-> "pending"]

\* no HTTP response received
NoReply == [status |-> 0]

\* the scan tool is the one in use; the other tools' state is at rest
IdleCall ==
    /\ tool = "scan_bare_citations"
    /\ args = <<>>
    /\ reply = NoReply
    /\ retry_after = <<>>
    /\ bib = <<>>
    /\ requests = <<>>
    /\ doi_client = "none"
    /\ procs = <<>>

(***************************************************************************)
(* scan_bare_citations as a state machine: read the file, one step per     *)
(* line of the loop, return.                                               *)
(***************************************************************************)
Init ==
    /\ content \in Documents
    /\ lines = <<>>
    /\ line_num = 0
    /\ in_acknowledgments = FALSE
    /\ in_bibliography = FALSE
    /\ citations = <<>>
    /\ scanned = {}
    /\ pc = "call"
    /\ exists = TRUE
    /\ error = "none"
    /\ response = Pending
    /\ history = <<>>
    /\ IdleCall

\* the section flags keep what the previous call left in them
ReadFileKeepingFlags ==
    /\ pc = "call"
    /\ exists
    /\ lines' = Split(content)
    /\ citations' = <<>>
    /\ line_num' = 0
    /\ scanned' = {}
    /\ pc' = "loop"
    /\ UNCHANGED <<content, in_acknowledgments, in_bibliography>>
    /\ UNCHANGED toolVars
    /\ UNCHANGED callVars

\* the path exists: content = file_path.read_text();
\* lines = content.split("\n"); citations = []; both flags False
ReadFile ==
    /\ pc = "call"
    /\ exists
    /\ lines' = Split(content)
    /\ citations' = <<>>
    /\ in_acknowledgments' = FALSE
    /\ in_bibliography' = FALSE
    /\ line_num' = 0
    /\ scanned' = {}
    /\ pc' = "loop"
    /\ UNCHANGED content
    /\ UNCHANGED toolVars
    /\ UNCHANGED callVars

\* one iteration of `for line_num, line in enumerate(lines, 1)`
ScanLine ==
    /\ pc = "loop"
    /\ line_num < Len(lines)
    /\ LET n        == line_num + 1
           line     == lines[n]
           ackHead  == AckStart(line)
           bibHead  == BibBegin(line)
           bibTail  == BibEnd(line)
           ackAfter == IF ackHead THEN TRUE
                       ELSE IF AckEnd(in_acknowledgments, line) THEN FALSE
                       ELSE in_acknowledgments
           bibAfter == IF ackHead THEN in_bibliography
                       ELSE IF bibHead THEN TRUE
                       ELSE IF bibTail THEN FALSE
                       ELSE in_bibliography
           scan     == /\ ~ackHead
                       /\ ~bibHead
                       /\ ~bibTail
                       /\ ~SectionSkip(ackAfter, bibAfter)
                       /\ ~AlreadyCited(line)
       IN /\ line_num' = n
          /\ in_acknowledgments' = ackAfter
          /\ in_bibliography' = bibAfter
          /\ citations' = IF scan THEN citations \o LineCitations(line, n)
                          ELSE citations
          /\ scanned' = IF scan THEN scanned \cup {n} ELSE scanned
    /\ UNCHANGED <<content, lines, pc>>
    /\ UNCHANGED toolVars
    /\ UNCHANGED callVars

\* return citations
Return ==
    /\ pc = "loop"
    /\ line_num = Len(lines)
    /\ pc' = "done"
    /\ UNCHANGED <<content, lines, line_num, in_acknowledgments,
                   in_bibliography, citations, scanned>>
    /\ UNCHANGED toolVars
    /\ UNCHANGED callVars

Next == ReadFile \/ ScanLine \/ Return

Spec == Init /\ [][Next]_vars

(***************************************************************************)
(* Exception classes of both packages and of the library calls they make,  *)
(* and the except clauses of every tool function, in the order written.    *)
(***************************************************************************)
\* bibtex_mcp.client: ParseError and FileNotFoundError (which shadows the
\* builtin of that name) derive from BibTeXError.  crossref_mcp.client:
\* RateLimitError, NotFoundError and APIError derive from CrossRefError.
\* The calls into the standard library and httpx raise the others: int()
\* and resp.json(), read_text() and open(), self._client.get().
Parent ==
    [c \in {"BibTeXError", "CrossRefError", "ValueError", "OSError",
             "HTTPError"} |-> "Exception"]
    @@ [c \in {"ParseError", "FileNotFoundError"} |-> "BibTeXError"]
    @@ [c \in {"RateLimitError", "NotFoundError", "APIError"} |-> "CrossRefError"]
    @@ [c \in {"JSONDecodeError", "UnicodeDecodeError"} |-> "ValueError"]
    @@ [c \in {"PermissionError"} |-> "OSError"]
    @@ [c \in {"ConnectError"} |-> "HTTPError"]

\* isinstance(e, c) for an exception of class e
RECURSIVE IsA(_, _)
IsA(e, c) == \/ e = c
             \/ e \in DOMAIN Parent /\ IsA(Parent[e], c)

BibtexTools == {"parse_bib", "scan_bare_citations", "rekey_entry", "add_entry",
                "suggest_replacement"}

CrossrefTools == {"search", "get_metadata", "get_bibtex",
                  "find_published_version"}

\* the except clauses of a tool function: <<class caught, error code>>
BibtexHandlers(t) ==
    CASE t = "parse_bib" ->
           << <<"FileNotFoundError", "file_not_found">>,
              <<"ParseError", "parse_error">> >>
      [] t = "scan_bare_citations" ->
           << <<"FileNotFoundError", "file_not_found">>,
              <<"Exception", "scan_error">> >>
      [] t = "rekey_entry" ->
           << <<"ParseError", "parse_error">>,
              <<"Exception", "rekey_error">> >>
      [] t = "add_entry" ->
           << <<"FileNotFoundError", "file_not_found">>,
              <<"ParseError", "parse_error">>,
              <<"BibTeXError", "bibtex_error">> >>
      [] t = "suggest_replacement" ->
           << <<"Exception", "replacement_error">> >>

CrossrefHandlers(t) ==
    CASE t = "search" ->
           << <<"RateLimitError", "rate_limited">>,
              <<"APIError", "api_error">> >>
      [] t = "get_metadata" ->
           << <<"NotFoundError", "not_found">>,
              <<"RateLimitError", "rate_limited">>,
              <<"APIError", "api_error">> >>
      [] t = "get_bibtex" ->
           << <<"NotFoundError", "not_found">>,
              <<"ValueError", "bibtex_unavailable">>,
              <<"RateLimitError", "rate_limited">>,
              <<"APIError", "api_error">> >>
      [] t = "find_published_version" ->
           << <<"RateLimitError", "rate_limited">>,
              <<"APIError", "api_error">> >>

Handlers(t) == IF t \in BibtexTools THEN BibtexHandlers(t)
               ELSE CrossrefHandlers(t)

\* the clauses of tool t that catch an exception of class e
Catching(t, e) == {k \in 1..Len(Handlers(t)) : IsA(e, Handlers(t)[k][1])}

\* the code the first catching clause reports
ErrorCode(t, e) ==
    Handlers(t)[CHOOSE k \in Catching(t, e) : \A j \in Catching(t, e) : k <= j][2]

(***************************************************************************)
(* The scan_bare_citations tool of the server: it calls the client method  *)
(* and answers with the citations or with a tagged error.  A session is a  *)
(* run of up to MaxCalls calls, each on a stored document or on a missing  *)
(* path.                                                                   *)
(***************************************************************************)
StoredDocuments ==
    { Chars("Suri (2011)"),
      Join(<<Chars("## Acknowledgments"), Chars("Udry (2010)")>>),
      Join(<<Chars("\\begin{thebibliography}"), Chars("Udry (2010)")>>) }

\* errors file_path.read_text() raises on a path that exists
ReadErrors == {"UnicodeDecodeError", "PermissionError"}

\* if not file_path.exists(): raise FileNotFoundError(...)
RaiseNotFound ==
    /\ pc = "call"
    /\ ~exists
    /\ error' = "FileNotFoundError"
    /\ pc' = "raised"
    /\ UNCHANGED <<content, lines, line_num, in_acknowledgments,
                   in_bibliography, citations, scanned>>
    /\ UNCHANGED <<exists, response, history>>
    /\ UNCHANGED callVars

\* file_path.read_text() raises
ReadFails ==
    /\ pc = "call"
    /\ exists
    /\ error' \in ReadErrors
    /\ pc' = "raised"
    /\ UNCHANGED <<content, lines, line_num, in_acknowledgments,
                   in_bibliography, citations, scanned>>
    /\ UNCHANGED <<exists, response, history>>
    /\ UNCHANGED callVars

\* every exception is reported as a failed scan
ScanErrorCodeUntagged(e) == "scan_error"

\* except FileNotFoundError / except Exception
ScanErrorCode(e) == ErrorCode("scan_bare_citations", e)

\* one finished call, as the session remembers it
Finished(r) == [content |-> content, exists |-> exists, error |-> error,
                response |-> r]

\* return json.dumps(result, indent=2)
ToolResult ==
    /\ pc = "done"
    /\ response' = [result |-> citations]
    /\ history' = Append(history, Finished(response'))
    /\ pc' = "responded"
    /\ UNCHANGED <<content, lines, line_num, in_acknowledgments,
                   in_bibliography, citations, scanned>>
    /\ UNCHANGED <<exists, error>>
    /\ UNCHANGED callVars

\* return _error(code, str(e))
ToolError ==
    /\ pc = "raised"
    /\ response' = [error |-> ScanErrorCode(error), message |-> error]
    /\ history' = Append(history, Finished(response'))
    /\ pc' = "responded"
    /\ UNCHANGED <<content, lines, line_num, in_acknowledgments,
                   in_bibliography, citations, scanned>>
    /\ UNCHANGED <<exists, error>>
    /\ UNCHANGED callVars

\* the next call of the tool, on a stored document or on a missing path
NextCall ==
    /\ pc = "responded"
    /\ Len(history) < MaxCalls
    /\ \/ exists' = TRUE /\ content' \in StoredDocuments
       \/ exists' = FALSE /\ content' = <<>>
    /\ error' = "none"
    /\ response' = Pending
    /\ pc' = "call"
    /\ UNCHANGED <<lines, line_num, in_acknowledgments, in_bibliography,
                   citations, scanned, history>>
    /\ UNCHANGED callVars

InitScanTool ==
    /\ \/ exists = TRUE /\ content \in StoredDocuments
       \/ exists = FALSE /\ content = <<>>
    /\ lines = <<>>
    /\ line_num = 0
    /\ in_acknowledgments = FALSE
    /\ in_bibliography = FALSE
    /\ citations = <<>>
    /\ scanned = {}
    /\ pc = "call"
    /\ error = "none"
    /\ response = Pending
    /\ history = <<>>
    /\ IdleCall

NextScanTool ==
    \/ ReadFile \/ ScanLine \/ Return
    \/ RaiseNotFound \/ ReadFails \/ ToolResult \/ ToolError \/ NextCall

SpecScanTool == InitScanTool /\ [][NextScanTool]_vars

(***************************************************************************)
(* One-line documents holding a single bracketed citation: up to           *)
(* MaxPhrases leading phrases, an author-year body, up to MaxNotes         *)
(* trailing notes.                                                         *)
(***************************************************************************)
CiteDocuments ==
    LET Phrases == {Chars("see "), Chars("e.g. "), Chars("I.E. "), Chars("cf.")}
        Bodies == {Chars("Suri 2011"), Chars("Suri (2011)"),
                   Chars("Suri and Udry, 2010")}
        Notes == {Chars("; a"), Chars(";"), Chars(" b")}
    IN {<<"(">> \o Concat(ps) \o b \o Concat(ns) \o <<")">> :
           ps \in {<<>>} \cup SeqsUpTo(Phrases, MaxPhrases), b \in Bodies,
           ns \in {<<>>} \cup SeqsUpTo(Notes, MaxNotes)}

InitCite ==
    /\ content \in CiteDocuments
    /\ lines = <<>>
    /\ line_num = 0
    /\ in_acknowledgments = FALSE
    /\ in_bibliography = FALSE
    /\ citations = <<>>
    /\ scanned = {}
    /\ pc = "call"
    /\ exists = TRUE
    /\ error = "none"
    /\ response = Pending
    /\ history = <<>>
    /\ IdleCall

SpecCite == InitCite /\ [][Next]_vars

(***************************************************************************)
(* CrossRefClient._handle_response.  An HTTP response is a record of its   *)
(* status code, its Retry-After header (<<>> when absent, <<text>> when    *)
(* present) and whether its body is JSON.                                  *)
(***************************************************************************)
\* the number a run of decimal digits denotes
RECURSIVE DigitsValue(_)
DigitsValue(ds) ==
    IF ds = <<>> THEN 0
    ELSE 10 * DigitsValue(SubSeq(ds, 1, Len(ds) - 1))
         + (CHOOSE d \in 0..9 : Chars("0123456789")[d + 1] = ds[Len(ds)])

\* int(text) accepts: surrounding whitespace, one sign, digits, single
\* underscores between digits
IsIntLiteral(t) ==
    LET s == Strip(t)
        u == IF s # <<>> /\ s[1] \in {"+", "-"} THEN Tail(s) ELSE s
    IN /\ u # <<>>
       /\ \A k \in 1..Len(u) :
            \/ u[k] \in Digit
            \/ /\ u[k] = "_"
               /\ k > 1
               /\ k < Len(u)
               /\ u[k - 1] \in Digit
               /\ u[k + 1] \in Digit

\* int(text) of an accepted literal
IntOf(t) ==
    LET n == DigitsValue(SelectSeq(t, LAMBDA c : c \in Digit))
    IN IF Strip(t)[1] = "-" THEN 0 - n ELSE n

\* what _handle_response does with a response: the class it raises
\* ("none" when it returns the parsed body) and the retry_after it attaches
HandleResponse(r) ==
    IF r.status = 429
    THEN IF r.retry_after_raw = <<>> \/ r.retry_after_raw[1] = <<>>
         THEN [raises |-> "RateLimitError", retry_after |-> <<>>]
         ELSE IF IsIntLiteral(r.retry_after_raw[1])
              THEN [raises |-> "RateLimitError",
                    retry_after |-> <<IntOf(r.retry_after_raw[1])>>]
              ELSE [raises |-> "ValueError", retry_after |-> <<>>]
    ELSE IF r.status = 404
    THEN [raises |-> "NotFoundError", retry_after |-> <<>>]
    ELSE IF r.status >= 400
    THEN [raises |-> "APIError", retry_after |-> <<>>]
    ELSE IF r.json_ok
    THEN [raises |-> "none", retry_after |-> <<>>]
    ELSE [raises |-> "JSONDecodeError", retry_after |-> <<>>]

(***************************************************************************)
(* One call of a tool of either server: the client method runs, and the    *)
(* tool function answers with its result or with the error object of the   *)
(* first except clause that catches what the client raised.                *)
(***************************************************************************)
Replies ==
    [status : {200, 302, 400, 404, 429, 500},
     retry_after_raw : {<<>>, <<Chars("")>>, <<Chars("30")>>, <<Chars(" 7 ")>>,
                        <<Chars("-1")>>, <<Chars("1.5")>>,
                        <<Chars("Wed, 21 Oct 2015 07:28:00 GMT")>>},
     json_ok : BOOLEAN]

\* the tools whose client method sends one request and hands the response to
\* _handle_response
ResponseTools == {"search", "get_metadata", "find_published_version"}

\* what the client method of a BibTeX tool can raise
ClientRaises(t) ==
    CASE t = "parse_bib" -> {"FileNotFoundError", "ParseError"}
      [] t = "scan_bare_citations" -> {"FileNotFoundError"} \cup ReadErrors
      [] t = "rekey_entry" -> {"ParseError"}
      [] t = "add_entry" ->
           {"FileNotFoundError", "ParseError", "BibTeXError"} \cup ReadErrors
      [] t = "suggest_replacement" -> {}

\* title_similarity as the fraction <<intersection, union>>; <<0, 1>> when
\* either title has no word left
TitleSimilarity(title1, title2) ==
    LET stopwords == {Chars("the"), Chars("a"), Chars("an"), Chars("and"),
                      Chars("or"), Chars("but"), Chars("in"), Chars("on"),
                      Chars("at"), Chars("to"), Chars("for")}
        WordSet(t) == LET words == Words(LowerCase(t))
                      IN {words[i] : i \in 1..Len(words)} \ stopwords
        words1 == WordSet(title1)
        words2 == WordSet(title2)
    IN IF words1 = {} \/ words2 = {} THEN <<0, 1>>
       ELSE <<Cardinality(words1 \cap words2), Cardinality(words1 \cup words2)>>

\* the loop over results keeping a later result that is merely as similar
RECURSIVE BestMatchLatest(_, _, _, _)
BestMatchLatest(title, results, k, best) ==
    LET sim == TitleSimilarity(title, results[k].title)
    IN IF k > Len(results) THEN best
       ELSE IF sim[1] * best.similarity[2] >= best.similarity[1] * sim[2]
                /\ sim[1] > 0
       THEN BestMatchLatest(title, results, k + 1,
                            [match |-> k, similarity |-> sim])
       ELSE BestMatchLatest(title, results, k + 1, best)

\* the loop over results from the k-th on: best is the index of best_match
\* (0 for None) with best_similarity
RECURSIVE BestMatch(_, _, _, _)
BestMatch(title, results, k, best) ==
    LET sim == TitleSimilarity(title, results[k].title)
    IN IF k > Len(results) THEN best
       ELSE IF sim[1] * best.similarity[2] > best.similarity[1] * sim[2]
       THEN BestMatch(title, results, k + 1, [match |-> k, similarity |-> sim])
       ELSE BestMatch(title, results, k + 1, best)

\* a call of find_published_version: <<title, the works its search finds>>;
\* a work's doi is <<>> when it has none
PublishedQueries ==
    LET Works == [title : {Chars("Risk Growth"), Chars("Growth risk"),
                           Chars("Risk Growth Now"), Chars("growth")},
                  doi : {<<>>, <<"10.1257/x">>}]
    IN {Chars("Risk and Growth"), Chars("The")}
       \X ({<<>>} \cup SeqsUpTo(Works, MaxResults))

\* find_published_version after its search returned: choose the best match
\* and, when it qualifies, try get_bibtex for it (logged in requests with
\* status 200 when it returned and 0 when it raised)
FindPublishedVersion ==
    /\ pc = "searched"
    /\ LET results == args[2]
           best == BestMatch(args[1], results, 1,
                             [match |-> 0, similarity |-> <<0, 1>>])
       IN IF /\ results # <<>>
             /\ 2 * best.similarity[1] > best.similarity[2]
             /\ best.match # 0
             /\ results[best.match].doi # <<>>
          THEN \E fetched \in BOOLEAN :
                  /\ requests' = Append(requests,
                        [host |-> "get_bibtex",
                         status |-> IF fetched THEN 200 ELSE 0])
                  /\ bib' = IF fetched
                            THEN <<[title |-> results[best.match].title,
                                    doi |-> results[best.match].doi,
                                    bibtex |-> results[best.match].doi]>>
                            ELSE <<results[best.match]>>
          ELSE bib' = <<>> /\ UNCHANGED requests
    /\ pc' = "returned"
    /\ UNCHANGED toolVars
    /\ UNCHANGED scanVars
    /\ UNCHANGED <<tool, args, reply, retry_after, doi_client, procs>>

InitTools ==
    /\ content = <<>>
    /\ lines = <<>>
    /\ line_num = 0
    /\ in_acknowledgments = FALSE
    /\ in_bibliography = FALSE
    /\ citations = <<>>
    /\ scanned = {}
    /\ pc = "call"
    /\ exists = TRUE
    /\ error = "none"
    /\ response = Pending
    /\ history = <<>>
    /\ retry_after = <<>>
    /\ bib = <<>>
    /\ requests = <<>>
    /\ doi_client = "none"
    /\ procs = <<>>
    /\ \/ /\ tool \in BibtexTools
          /\ args = <<"input">>
          /\ reply = NoReply
       \/ /\ tool = "search"
          /\ args \in {<<>>, <<"query">>}
          /\ reply \in Replies
       \/ /\ tool \in {"get_metadata", "get_bibtex"}
          /\ args = <<"input">>
          /\ reply \in Replies
       \/ /\ tool = "find_published_version"
          /\ args \in PublishedQueries
          /\ reply \in {r \in Replies : /\ r.retry_after_raw = <<>>
                                        /\ r.status \in {200, 404}}

\* search without query, author and title answers before calling the client
RejectRequest ==
    /\ pc = "call"
    /\ tool = "search"
    /\ args = <<>>
    /\ response' = [error |-> "invalid_request", message |-> "none"]
    /\ pc' = "responded"
    /\ UNCHANGED <<exists, error, history>>
    /\ UNCHANGED scanVars
    /\ UNCHANGED callVars

\* self._client.get raises: no response arrives
SendFails ==
    /\ pc = "call"
    /\ tool \in ResponseTools
    /\ tool = "search" => args # <<>>
    /\ error' = "ConnectError"
    /\ pc' = "raised"
    /\ UNCHANGED <<exists, response, history>>
    /\ UNCHANGED scanVars
    /\ UNCHANGED callVars

\* the response arrives and _handle_response classifies it
Receive ==
    /\ pc = "call"
    /\ tool \in ResponseTools
    /\ tool = "search" => args # <<>>
    /\ LET out == HandleResponse(reply)
       IN IF out.raises = "none"
          THEN /\ pc' = IF tool = "find_published_version" THEN "searched"
                        ELSE "returned"
               /\ UNCHANGED <<error, retry_after>>
          ELSE /\ pc' = "raised"
               /\ error' = out.raises
               /\ retry_after' = out.retry_after
    /\ UNCHANGED <<exists, response, history>>
    /\ UNCHANGED scanVars
    /\ UNCHANGED <<tool, args, reply, bib, requests, doi_client, procs>>

\* get_bibtex returning whatever the transform endpoint answers
GetBibtexPrimaryAnyStatus ==
    /\ pc = "call"
    /\ tool = "get_bibtex"
    /\ \E sent \in BOOLEAN :
          /\ requests' = Append(requests,
                [host |-> "api.crossref.org",
                 status |-> IF sent THEN reply.status ELSE 0])
          /\ IF sent
             THEN pc' = "returned" /\ bib' = <<"api.crossref.org">>
             ELSE pc' = "fallback" /\ UNCHANGED bib
    /\ UNCHANGED toolVars
    /\ UNCHANGED scanVars
    /\ UNCHANGED <<tool, args, reply, retry_after, doi_client, procs>>

\* get_bibtex, the Crossref transform endpoint: a 200 returns the text; any
\* other status and any exception of the request (status 0: no response) are
\* swallowed.  requests logs each request made and how it ended; bib is the
\* text returned, named by the host it came from.
GetBibtexPrimary ==
    /\ pc = "call"
    /\ tool = "get_bibtex"
    /\ \E sent \in BOOLEAN :
          /\ requests' = Append(requests,
                [host |-> "api.crossref.org",
                 status |-> IF sent THEN reply.status ELSE 0])
          /\ IF sent /\ reply.status = 200
             THEN pc' = "returned" /\ bib' = <<"api.crossref.org">>
             ELSE pc' = "fallback" /\ UNCHANGED bib
    /\ UNCHANGED toolVars
    /\ UNCHANGED scanVars
    /\ UNCHANGED <<tool, args, reply, retry_after, doi_client, procs>>

\* get_bibtex, doi.org content negotiation with a client of its own: a 200
\* returns the text; another status closes the client; after that and after
\* an exception of the request, ValueError
GetBibtexFallback ==
    /\ pc = "fallback"
    /\ \E status \in {0, 200, 404} :
          /\ requests' = Append(requests, [host |-> "doi.org", status |-> status])
          /\ doi_client' = IF status \in {0, 200} THEN "open" ELSE "closed"
          /\ IF status = 200
             THEN pc' = "returned" /\ bib' = <<"doi.org">> /\ UNCHANGED error
             ELSE pc' = "raised" /\ error' = "ValueError" /\ UNCHANGED bib
    /\ UNCHANGED <<exists, response, history>>
    /\ UNCHANGED scanVars
    /\ UNCHANGED <<tool, args, reply, retry_after, procs>>

\* the client method of a BibTeX tool raises
BibtexRaises ==
    /\ pc = "call"
    /\ tool \in BibtexTools
    /\ error' \in ClientRaises(tool)
    /\ pc' = "raised"
    /\ UNCHANGED <<exists, response, history>>
    /\ UNCHANGED scanVars
    /\ UNCHANGED callVars

\* the client method of a BibTeX tool returns
BibtexReturns ==
    /\ pc = "call"
    /\ tool \in BibtexTools
    /\ pc' = "returned"
    /\ UNCHANGED toolVars
    /\ UNCHANGED scanVars
    /\ UNCHANGED callVars

\* the tool function returns the client's result
Answer ==
    /\ pc = "returned"
    /\ response' = [result |-> IF tool \in {"get_bibtex", "find_published_version"}
                                THEN bib ELSE <<tool>>]
    /\ pc' = "responded"
    /\ UNCHANGED <<exists, error, history>>
    /\ UNCHANGED scanVars
    /\ UNCHANGED callVars

\* an except clause of the tool function catches the exception
AnswerError ==
    /\ pc = "raised"
    /\ Catching(tool, error) # {}
    /\ response' = IF ErrorCode(tool, error) = "rate_limited"
                   THEN [error |-> "rate_limited", message |-> error,
                         retry_after_seconds |-> retry_after]
                   ELSE [error |-> ErrorCode(tool, error), message |-> error]
    /\ pc' = "responded"
    /\ UNCHANGED <<exists, error, history>>
    /\ UNCHANGED scanVars
    /\ UNCHANGED callVars

\* no except clause catches it: the exception leaves the tool function
Propagate ==
    /\ pc = "raised"
    /\ Catching(tool, error) = {}
    /\ pc' = "propagated"
    /\ UNCHANGED toolVars
    /\ UNCHANGED scanVars
    /\ UNCHANGED callVars

NextTools ==
    \/ RejectRequest
    \/ SendFails
    \/ Receive
    \/ GetBibtexPrimary
    \/ GetBibtexFallback
    \/ FindPublishedVersion
    \/ BibtexRaises
    \/ BibtexReturns
    \/ Answer
    \/ AnswerError
    \/ Propagate

SpecTools == InitTools /\ [][NextTools]_vars

(***************************************************************************)
(* BibTexClient.rekey_entry and _generate_key.                             *)
(***************************************************************************)
\* \w
WordChar == Upper \cup Lower \cup Digit \cup {"_"}

\* bibtex.strip()
StripWhite(s) == SubSeq(s, RunEnd(s, 1, White), RunStart(s, Len(s), White))

\* re.match(r"@(\w+)\{(\w+)", first_line): <<group 1, group 2>>, or <<>>
\* when there is no match
HeaderMatch(line) ==
    LET brace == RunEnd(line, 2, WordChar)
        stop == RunEnd(line, brace + 1, WordChar)
    IN IF /\ Len(line) >= 1
          /\ line[1] = "@"
          /\ brace > 2
          /\ brace <= Len(line)
          /\ line[brace] = "{"
          /\ stop > brace + 1
       THEN <<SubSeq(line, 2, brace - 1), SubSeq(line, brace + 1, stop - 1)>>
       ELSE <<>>

\* text.rstrip("}")
RStripBrace(s) == SubSeq(s, 1, RunStart(s, Len(s), {"}"}))

\* re.search(r"name\s*=\s*\{([^}]+)\}", s): group 1 of the leftmost match,
\* "" without one
BracedField(s, name) ==
    LET BracedAt(i) ==
            LET eq == RunEnd(s, i + Len(name), White)
                open == RunEnd(s, eq + 1, White)
                close == SkipTo(s, open + 1, "}")
            IN IF /\ HasAt(s, i, name)
                  /\ eq <= Len(s)
                  /\ s[eq] = "="
                  /\ open <= Len(s)
                  /\ s[open] = "{"
                  /\ close > open + 1
                  /\ close <= Len(s)
               THEN <<SubSeq(s, open + 1, close - 1)>>
               ELSE <<>>
        at == {i \in 1..Len(s) : BracedAt(i) # <<>>}
    IN IF at = {} THEN <<>>
       ELSE BracedAt(CHOOSE i \in at : \A j \in at : i <= j)[1]

\* re.search(r"year\s*=\s*\{?(\d{4})\}?", s): group 1 of the leftmost match,
\* "" without one
YearField(s) ==
    LET YearAt(i) ==
            LET eq == RunEnd(s, i + 4, White)
                open == RunEnd(s, eq + 1, White)
                d == IF open <= Len(s) /\ s[open] = "{" THEN open + 1 ELSE open
            IN IF /\ HasAt(s, i, Chars("year"))
                  /\ eq <= Len(s)
                  /\ s[eq] = "="
                  /\ d + 3 <= Len(s)
                  /\ \A k \in d..(d + 3) : s[k] \in Digit
               THEN <<SubSeq(s, d, d + 3)>>
               ELSE <<>>
        at == {i \in 1..Len(s) : YearAt(i) # <<>>}
    IN IF at = {} THEN <<>>
       ELSE YearAt(CHOOSE i \in at : \A j \in at : i <= j)[1]

\* text.split(w)[0]
BeforeFirst(s, w) == IF Find(s, w) = 0 THEN s ELSE SubSeq(s, 1, Find(s, w) - 1)

\* _remove_accents: NFD, then the combining marks dropped
RemoveAccents(s) ==
    [i \in 1..Len(s) |-> CASE s[i] \in {"é", "è"} -> "e"
                            [] s[i] = "É" -> "E"
                            [] s[i] = "ü" -> "u"
                            [] OTHER -> s[i]]

\* _normalize_name
NormalizeName(name) ==
    LowerCase(SelectSeq(RemoveAccents(name), LAMBDA c : c \notin {"-", " "}))

STOPWORDS == {Chars("a"), Chars("an"), Chars("the"), Chars("on"), Chars("in"),
              Chars("at"), Chars("to"), Chars("for")}

\* the first word whose strip(".,;:") is not a stopword, stripped; ""
\* when there is none
RECURSIVE TitleWord(_)
TitleWord(words) ==
    LET word == Head(words)
        word_clean == SubSeq(word, RunEnd(word, 1, {".", ",", ";", ":"}),
                             RunStart(word, Len(word), {".", ",", ";", ":"}))
    IN IF words = <<>> THEN <<>>
       ELSE IF word_clean \notin STOPWORDS THEN word_clean
       ELSE TitleWord(Tail(words))

BaseKey(author, year, title) ==
    LET author_part ==
            IF author # <<>>
            THEN NormalizeName(BeforeFirst(BeforeFirst(author, Chars(" and ")),
                                           <<",">>))
            ELSE <<>>
        title_part == IF title # <<>> THEN TitleWord(Words(LowerCase(title)))
                      ELSE <<>>
    IN author_part \o year \o title_part

Suffixes == <<"a", "b", "c", "d", "e", "f">>

\* _generate_key; existing_keys is used for membership tests only
GenerateKey(author, year, title, existing_keys) ==
    LET base_key == BaseKey(author, year, title)
        free == {k \in 1..Len(Suffixes) :
                    base_key \o <<Suffixes[k]>> \notin existing_keys}
    IN IF base_key \notin existing_keys THEN base_key
       ELSE IF free # {}
       THEN base_key \o <<Suffixes[CHOOSE k \in free : \A j \in free : k <= j]>>
       ELSE base_key

\* rekey_entry: the class raised ("none" when it returns) and the value
RekeyEntry(bibtex, existing_keys) ==
    LET ls == Split(StripWhite(bibtex))
        match == HeaderMatch(ls[1])
        entry_text == RStripBrace(Join(Tail(ls)))
        new_key == GenerateKey(BracedField(entry_text, Chars("author")),
                               YearField(entry_text),
                               BracedField(entry_text, Chars("title")),
                               existing_keys)
    IN IF match = <<>>
       THEN [raises |-> "ParseError", value |-> <<>>]
       ELSE [raises |-> "none",
             value |-> <<"@">> \o match[1] \o <<"{">> \o new_key \o <<",">>
                       \o <<"\n">> \o Join(Tail(ls))]

(***************************************************************************)
(* The rekey_entry tool applied to an entry and a list of existing keys.   *)
(***************************************************************************)
Entries ==
    {Chars("@article{old,\n author = {Suri, Tavneet and Udry, C},\n year = {2011},\n title = {The Risk of It}\n}"),
     Chars("@article{old, year = {2011},\n author = {Suri, T},\n title = {Risk}\n}"),
     Chars(" @book{suri2011risk,\n title={On a: Risk.},\n year=2011,\n author={Sü-Ri}\n}\n"),
     Chars("@misc{old, title = {Risk}}"),
     Chars("@article{old,\n booktitle = {In Print},\n title = {Risk}}"),
     Chars("article{old,\n title = {Risk}\n}"),
     Chars("@{old,\n title = {Risk}\n}"),
     Chars("invalid entry")}

KeyPool == {Chars("suri2011risk"), Chars("suri2011riska"), Chars("suri2011riskb"),
            Chars("suri2011riskc"), Chars("suri2011riskd"), Chars("suri2011riske"),
            Chars("suri2011riskf"), Chars("udry2010")}

InitRekey ==
    /\ content = <<>>
    /\ lines = <<>>
    /\ line_num = 0
    /\ in_acknowledgments = FALSE
    /\ in_bibliography = FALSE
    /\ citations = <<>>
    /\ scanned = {}
    /\ pc = "call"
    /\ exists = TRUE
    /\ error = "none"
    /\ response = Pending
    /\ history = <<>>
    /\ tool = "rekey_entry"
    /\ args \in Entries \X SUBSET KeyPool
    /\ reply = NoReply
    /\ retry_after = <<>>
    /\ bib = <<>>
    /\ requests = <<>>
    /\ doi_client = "none"
    /\ procs = <<>>

\* the client method returns and the tool returns its result
RekeyAnswers ==
    /\ pc = "call"
    /\ tool = "rekey_entry"
    /\ RekeyEntry(args[1], args[2]).raises = "none"
    /\ response' = [result |-> RekeyEntry(args[1], args[2]).value]
    /\ pc' = "responded"
    /\ UNCHANGED <<exists, error, history>>
    /\ UNCHANGED scanVars
    /\ UNCHANGED callVars

\* the client method raises and the tool answers with the error object
RekeyRejects ==
    /\ pc = "call"
    /\ tool = "rekey_entry"
    /\ RekeyEntry(args[1], args[2]).raises # "none"
    /\ error' = RekeyEntry(args[1], args[2]).raises
    /\ response' = [error |-> ErrorCode(tool, error'), message |-> error']
    /\ pc' = "responded"
    /\ UNCHANGED <<exists, history>>
    /\ UNCHANGED scanVars
    /\ UNCHANGED callVars

NextRekey == RekeyAnswers \/ RekeyRejects

SpecRekey == InitRekey /\ [][NextRekey]_vars

(***************************************************************************)
(* BibTexClient.add_entry on one .bib file, and the add_entry tool.  bib   *)
(* is the file; content is what the call read from it; history holds the   *)
(* file as it was when each call began.                                    *)
(***************************************************************************)
\* @\w+\{(\w+) tried at position i: <<group 1>>, or <<>>
KeyAt(s, i) ==
    LET brace == RunEnd(s, i + 1, WordChar)
        stop == RunEnd(s, brace + 1, WordChar)
    IN IF /\ i <= Len(s)
          /\ s[i] = "@"
          /\ brace > i + 1
          /\ brace <= Len(s)
          /\ s[brace] = "{"
          /\ stop > brace + 1
       THEN <<SubSeq(s, brace + 1, stop - 1)>>
       ELSE <<>>

\* re.search(r"@\w+\{(\w+)", entry): <<group 1>> of the leftmost match, or <<>>
EntryKey(entry) ==
    LET at == {i \in 1..Len(entry) : KeyAt(entry, i) # <<>>}
    IN IF at = {} THEN <<>>
       ELSE KeyAt(entry, CHOOSE i \in at : \A j \in at : i <= j)

\* re.findall(r"@\w+\{(\w+)", content), as the set its membership test sees
FileKeys(text) ==
    {KeyAt(text, i)[1] : i \in {j \in 1..Len(text) : KeyAt(text, j) # <<>>}}

BibFiles ==
    {Chars(""),
     Chars("@book{udry2010,\n}"),
     Chars("% @misc{ghost\n@article{suri2011,\n}\n")}

AddEntries ==
    {Chars("@article{suri2011, title={B}}"),
     Chars("@misc{rose2012,}"),
     Chars("% @misc{ghost}"),
     Chars("udry2010"),
     Chars("@misc{k1,}@book{udry2010,}")}

InitAdd ==
    /\ content = <<>>
    /\ lines = <<>>
    /\ line_num = 0
    /\ in_acknowledgments = FALSE
    /\ in_bibliography = FALSE
    /\ citations = <<>>
    /\ scanned = {}
    /\ pc = "call"
    /\ exists \in BOOLEAN
    /\ error = "none"
    /\ response = Pending
    /\ bib \in BibFiles
    /\ history = <<bib>>
    /\ tool = "add_entry"
    /\ args \in {<<e>> : e \in AddEntries}
    /\ reply = NoReply
    /\ retry_after = <<>>
    /\ requests = <<>>
    /\ doi_client = "none"
    /\ procs = <<>>

\* add_entry writing before it tests for a duplicate key
AddEntryWriteUnchecked ==
    /\ pc = "read"
    /\ \/ /\ bib' = bib \o (IF content # <<>> /\ ~EndsWith(content, <<"\n">>)
                            THEN <<"\n">> ELSE <<>>)
                        \o <<"\n">> \o args[1] \o <<"\n">>
          /\ IF EntryKey(args[1])[1] \in FileKeys(content)
             THEN error' = "BibTeXError" /\ pc' = "raised"
             ELSE pc' = "returned" /\ UNCHANGED error
       \/ /\ EntryKey(args[1])[1] \notin FileKeys(content)
          /\ error' = "PermissionError"
          /\ pc' = "raised"
          /\ UNCHANGED bib
    /\ UNCHANGED <<exists, response, history>>
    /\ UNCHANGED scanVars
    /\ UNCHANGED <<tool, args, reply, retry_after, requests, doi_client, procs>>

\* add_entry from the duplicate test on: raise for a key the file has, else
\* open the file for appending (which can fail) and write the entry
AddEntryWrite ==
    /\ pc = "read"
    /\ IF EntryKey(args[1])[1] \in FileKeys(content)
       THEN /\ error' = "BibTeXError"
            /\ pc' = "raised"
            /\ UNCHANGED bib
       ELSE \/ /\ bib' = bib \o (IF content # <<>> /\ ~EndsWith(content, <<"\n">>)
                                 THEN <<"\n">> ELSE <<>>)
                             \o <<"\n">> \o args[1] \o <<"\n">>
               /\ pc' = "returned"
               /\ UNCHANGED error
            \/ /\ error' = "PermissionError"
               /\ pc' = "raised"
               /\ UNCHANGED bib
    /\ UNCHANGED <<exists, response, history>>
    /\ UNCHANGED scanVars
    /\ UNCHANGED <<tool, args, reply, retry_after, requests, doi_client, procs>>

\* add_entry up to read_text(): the path test, the entry's key, the read
AddEntryChecks ==
    /\ pc = "call"
    /\ tool = "add_entry"
    /\ IF ~exists
       THEN error' = "FileNotFoundError" /\ pc' = "raised" /\ UNCHANGED content
       ELSE IF EntryKey(args[1]) = <<>>
       THEN error' = "ParseError" /\ pc' = "raised" /\ UNCHANGED content
       ELSE \/ content' = bib /\ pc' = "read" /\ UNCHANGED error
            \/ error' \in ReadErrors /\ pc' = "raised" /\ UNCHANGED content
    /\ UNCHANGED <<exists, response, history>>
    /\ UNCHANGED <<lines, line_num, in_acknowledgments, in_bibliography,
                   citations, scanned>>
    /\ UNCHANGED callVars

\* the tool reports the success
AddAnswer ==
    /\ pc = "returned"
    /\ tool = "add_entry"
    /\ response' = [status |-> "success", message |-> EntryKey(args[1])[1]]
    /\ pc' = "responded"
    /\ UNCHANGED <<exists, error, history>>
    /\ UNCHANGED scanVars
    /\ UNCHANGED callVars

\* the next call, on the file or on a path that does not exist
NextAddCall ==
    /\ pc \in {"responded", "propagated"}
    /\ Len(history) < MaxCalls
    /\ exists' \in BOOLEAN
    /\ args' \in {<<e>> : e \in AddEntries}
    /\ history' = Append(history, bib)
    /\ error' = "none"
    /\ response' = Pending
    /\ pc' = "call"
    /\ UNCHANGED scanVars
    /\ UNCHANGED <<tool, reply, retry_after, bib, requests, doi_client, procs>>

NextAdd ==
    \/ AddEntryChecks
    \/ AddEntryWrite
    \/ AddAnswer
    \/ AnswerError
    \/ Propagate
    \/ NextAddCall

SpecAdd == InitAdd /\ [][NextAdd]_vars

(***************************************************************************)
(* Two add_entry calls at once on one .bib file, for entries with the same *)
(* key.  One call runs on pc, content, error, args and response; procs[1]  *)
(* holds these locals of the call that waits.  No lock is taken in         *)
(* add_entry, so the calls can change places between any two steps.        *)
(***************************************************************************)
InitRace ==
    /\ content = <<>>
    /\ lines = <<>>
    /\ line_num = 0
    /\ in_acknowledgments = FALSE
    /\ in_bibliography = FALSE
    /\ citations = <<>>
    /\ scanned = {}
    /\ pc = "call"
    /\ exists = TRUE
    /\ error = "none"
    /\ response = Pending
    /\ bib \in BibFiles
    /\ history = <<bib>>
    /\ tool = "add_entry"
    /\ args \in {<<e>> : e \in {a \in AddEntries : EntryKey(a) # <<>>}}
    /\ \E other \in {a \in AddEntries : EntryKey(a) = EntryKey(args[1])} :
          procs = <<[pc |-> "call", content |-> <<>>, error |-> "none",
                     args |-> <<other>>, response |-> Pending]>>
    /\ reply = NoReply
    /\ retry_after = <<>>
    /\ requests = <<>>
    /\ doi_client = "none"

\* the running call waits and the waiting call runs
Switch ==
    /\ tool = "add_entry"
    /\ procs # <<>>
    /\ procs[1].pc \notin {"responded", "propagated"}
    /\ procs' = <<[pc |-> pc, content |-> content, error |-> error,
                   args |-> args, response |-> response]>>
    /\ pc' = procs[1].pc
    /\ content' = procs[1].content
    /\ error' = procs[1].error
    /\ args' = procs[1].args
    /\ response' = procs[1].response
    /\ UNCHANGED <<exists, history>>
    /\ UNCHANGED <<lines, line_num, in_acknowledgments, in_bibliography,
                   citations, scanned>>
    /\ UNCHANGED <<tool, reply, retry_after, bib, requests, doi_client>>

NextRace ==
    \/ AddEntryChecks
    \/ AddEntryWrite
    \/ AddAnswer
    \/ AnswerError
    \/ Propagate
    \/ Switch

SpecRace == InitRace /\ [][NextRace]_vars

(***************************************************************************)
(* bibtex-janitor, clean_bib.py.  An entry is a function from its field    *)
(* names to their values.                                                  *)
(***************************************************************************)
\* apply_title_case on the value of the title field
TitleCased(title0) ==
    LET ACRONYMS == {Chars("gdp"), Chars("gnp"), Chars("cpi"), Chars("ppi"),
                     Chars("var"), Chars("arma"), Chars("arima"), Chars("garch"),
                     Chars("dsge"), Chars("iv"), Chars("ols"), Chars("gls"),
                     Chars("gmm"), Chars("ml"), Chars("mle"), Chars("mcmc"),
                     Chars("usa"), Chars("uk"), Chars("eu"), Chars("oecd"),
                     Chars("imf"), Chars("fed"), Chars("ecb"), Chars("nber"),
                     Chars("cepr"), Chars("iza"), Chars("covid"), Chars("aids"),
                     Chars("nato")}
        PROPER_NAMES == {Chars("keynesian"), Chars("bayesian"), Chars("ricardian"),
                         Chars("malthusian"), Chars("smithian"), Chars("walrasian"),
                         Chars("marshallian"), Chars("fisherian"), Chars("friedman"),
                         Chars("samuelson"), Chars("gaussian"), Chars("poisson"),
                         Chars("bernoulli"), Chars("markov")}
        SmallWords == {Chars("a"), Chars("an"), Chars("the"), Chars("and"),
                       Chars("but"), Chars("or"), Chars("for"), Chars("nor"),
                       Chars("on"), Chars("at"), Chars("to"), Chars("from"),
                       Chars("by"), Chars("of"), Chars("in")}
        ToUpper(c) == IF c \in Lower
                      THEN UpperLetters[CHOOSE i \in 1..26 : LowerLetters[i] = c]
                      ELSE c
        UpperCase(w) == [i \in 1..Len(w) |-> ToUpper(w[i])]
        \* str.capitalize()
        Capitalize(w) == [i \in 1..Len(w) |->
                             IF i = 1 THEN ToUpper(w[i]) ELSE ToLower(w[i])]
        \* re.findall(r'\{[^}]+\}', s) from position i on
        RECURSIVE Braced(_, _)
        Braced(s, i) ==
            LET close == SkipTo(s, i + 1, "}")
            IN IF i > Len(s) THEN <<>>
               ELSE IF s[i] = "{" /\ close > i + 1 /\ close <= Len(s)
               THEN <<SubSeq(s, i, close)>> \o Braced(s, close + 1)
               ELSE Braced(s, i + 1)
        Placeholder(i) == Chars("__BRACED_") \o Chars(ToString(i)) \o Chars("__")
        \* s.replace(w, r, 1)
        ReplaceFirst(s, w, r) ==
            IF Find(s, w) = 0 THEN s
            ELSE SubSeq(s, 1, Find(s, w) - 1) \o r
                 \o SubSeq(s, Find(s, w) + Len(w), Len(s))
        \* s.replace(w, r) and re.sub(w, r, s) for a literal w; fold is TRUE
        \* under re.IGNORECASE
        RECURSIVE ReplaceAll(_, _, _, _)
        ReplaceAll(s, w, r, fold) ==
            LET at == Find(IF fold THEN LowerCase(s) ELSE s,
                           IF fold THEN LowerCase(w) ELSE w)
            IN IF w = <<>> \/ at = 0 THEN s
               ELSE SubSeq(s, 1, at - 1) \o r
                    \o ReplaceAll(SubSeq(s, at + Len(w), Len(s)), w, r, fold)
        \* the loop that puts a placeholder for each braced group
        RECURSIVE Hide(_, _, _)
        Hide(s, groups, i) ==
            IF i > Len(groups) THEN s
            ELSE Hide(ReplaceFirst(s, groups[i], Placeholder(i - 1)), groups, i + 1)
        \* the loop that puts the groups back
        RECURSIVE Restore(_, _, _)
        Restore(s, groups, i) ==
            IF i > Len(groups) THEN s
            ELSE Restore(ReplaceAll(s, Placeholder(i - 1), groups[i], FALSE),
                         groups, i + 1)
        \* the body of the loop over words, for the i-th word (from 0)
        Recase(word, i) ==
            LET word_clean == SelectSeq(word, LAMBDA c : c \in WordChar)
            IN IF HasAt(word, 1, Chars("__BRACED_")) THEN word
               ELSE IF /\ UpperCase(word_clean) = word_clean
                       /\ Len(word_clean) >= 2
                       /\ \A k \in 1..Len(word_clean) :
                             word_clean[k] \in Upper \cup Lower
                       /\ LowerCase(word_clean) \in ACRONYMS
               THEN ReplaceAll(word, word_clean,
                               <<"{">> \o word_clean \o <<"}">>, FALSE)
               ELSE IF LowerCase(word_clean) \in PROPER_NAMES
               THEN ReplaceAll(word, word_clean,
                               <<"{">> \o Capitalize(word_clean) \o <<"}">>, TRUE)
               ELSE IF i = 0 THEN Capitalize(word)
               ELSE IF LowerCase(word) \in SmallWords THEN LowerCase(word)
               ELSE Capitalize(word)
        \* ' '.join(result)
        RECURSIVE JoinSpace(_)
        JoinSpace(ws) == IF Len(ws) = 0 THEN <<>>
                         ELSE IF Len(ws) = 1 THEN ws[1]
                         ELSE ws[1] \o <<" ">> \o JoinSpace(Tail(ws))
        braced_content == Braced(title0, 1)
        words == Words(Hide(title0, braced_content, 1))
    IN Restore(JoinSpace([i \in 1..Len(words) |-> Recase(words[i], i - 1)]),
               braced_content, 1)

\* one call of clean_entry: the entry as parsed is args[1], the entry the
\* call works on in place is bib[1], pc names the function called next
InitJanitor ==
    /\ content = <<>>
    /\ lines = <<>>
    /\ line_num = 0
    /\ in_acknowledgments = FALSE
    /\ in_bibliography = FALSE
    /\ citations = <<>>
    /\ scanned = {}
    /\ pc = "ensure_nber_format"
    /\ exists = TRUE
    /\ error = "none"
    /\ response = Pending
    /\ history = <<>>
    /\ tool = "clean_entry"
    /\ \E ENTRYTYPE \in {Chars("article"), Chars("Article"), Chars("book")},
          title \in {<<>>, Chars("the {GDP} of bayesian growth"),
                     Chars("({GDP}) and GDP, in USA"),
                     Chars("a {b}{c} GARCH models"),
                     Chars("x-{GDP} Markov's"),
                     Chars("On  THE oecd: {New York}, {a}")},
          url \in {<<>>, Chars("https://www.nber.org/papers/w12345"),
                   Chars("http://x.org/p/2020")},
          urldate \in {<<>>, Chars("2021-01-02")},
          journal \in {<<>>, Chars("AER "), Chars("NBER Working Paper")},
          institution \in {<<>>, Chars("MIT")},
          note \in {<<>>, Chars("n")} :
          LET fields == [ENTRYTYPE |-> ENTRYTYPE, ID |-> Chars("k"),
                         author |-> Chars("A"), year |-> Chars("2020"),
                         title |-> title, url |-> url, urldate |-> urldate,
                         journal |-> journal, institution |-> institution,
                         note |-> note]
          IN args = <<[f \in {g \in DOMAIN fields : fields[g] # <<>>}
                          |-> fields[f]]>>
    /\ bib = args
    /\ reply = NoReply
    /\ retry_after = <<>>
    /\ requests = <<>>
    /\ doi_client = "none"
    /\ procs = <<>>

\* ensure_nber_format leaving ENTRYTYPE as it found it
EnsureNberFormatKeepsType ==
    /\ pc = "ensure_nber_format"
    /\ LET entry == bib[1]
           Get(f) == IF f \in DOMAIN entry THEN entry[f] ELSE <<>>
           is_nber == \/ Contains(LowerCase(Get("url")), Chars("nber.org"))
                      \/ Contains(LowerCase(Get("journal")), Chars("nber"))
                      \/ Contains(LowerCase(Get("institution")), Chars("nber"))
                      \/ Contains(LowerCase(Get("institution")),
                                  Chars("national bureau"))
       IN bib' = IF is_nber
                 THEN <<[f \in DOMAIN entry \ {"journal"} |-> entry[f]]>>
                 ELSE bib
    /\ pc' = "standardize_journal_names"
    /\ UNCHANGED toolVars /\ UNCHANGED scanVars
    /\ UNCHANGED <<tool, args, reply, retry_after, requests, doi_client, procs>>

\* ensure_nber_format
EnsureNberFormat ==
    /\ pc = "ensure_nber_format"
    /\ LET entry == bib[1]
           Get(f) == IF f \in DOMAIN entry THEN entry[f] ELSE <<>>
           url == Get("url")
           is_nber == \/ Contains(LowerCase(url), Chars("nber.org"))
                      \/ Contains(LowerCase(Get("journal")), Chars("nber"))
                      \/ Contains(LowerCase(Get("institution")), Chars("nber"))
                      \/ Contains(LowerCase(Get("institution")),
                                  Chars("national bureau"))
           retyped == [f \in (DOMAIN entry \ {"journal"})
                                 \cup {"ENTRYTYPE", "institution", "type"} |->
                          CASE f = "ENTRYTYPE" -> Chars("techreport")
                            [] f = "institution" ->
                                  Chars("National Bureau of Economic Research")
                            [] f = "type" -> Chars("Working Paper")
                            [] OTHER -> entry[f]]
           \* re.search(r'[/w](\d{4,5})', url): where the matches start
           at == {i \in 1..Len(url) :
                     /\ url[i] \in {"/", "w"}
                     /\ i + 4 <= Len(url)
                     /\ \A k \in 1..4 : url[i + k] \in Digit}
           start == CHOOSE i \in at : \A j \in at : i <= j
           number == SubSeq(url, start + 1,
                            IF start + 5 <= Len(url) /\ url[start + 5] \in Digit
                            THEN start + 5 ELSE start + 4)
       IN bib' = IF ~is_nber THEN bib
                 ELSE IF "number" \notin DOMAIN entry /\ url # <<>> /\ at # {}
                 THEN <<("number" :> number) @@ retyped>>
                 ELSE <<retyped>>
    /\ pc' = "standardize_journal_names"
    /\ UNCHANGED toolVars /\ UNCHANGED scanVars
    /\ UNCHANGED <<tool, args, reply, retry_after, requests, doi_client, procs>>

\* standardize_journal_names
StandardizeJournalNames ==
    /\ pc = "standardize_journal_names"
    /\ LET entry == bib[1]
           JOURNAL_MAPPINGS ==
               [jpe |-> "Journal of Political Economy",
                qje |-> "Quarterly Journal of Economics",
                aer |-> "American Economic Review",
                econometrica |-> "Econometrica",
                restat |-> "Review of Economics and Statistics",
                jeea |-> "Journal of the European Economic Association",
                jel |-> "Journal of Economic Literature",
                restud |-> "Review of Economic Studies",
                jf |-> "Journal of Finance",
                jfe |-> "Journal of Financial Economics"]
               @@ ("j pol econ" :> "Journal of Political Economy")
               @@ ("j. pol. econ." :> "Journal of Political Economy")
               @@ ("journal of pol. econ." :> "Journal of Political Economy")
               @@ ("journal of political economy" :> "Journal of Political Economy")
               @@ ("q j econ" :> "Quarterly Journal of Economics")
               @@ ("quarterly journal of economics" :> "Quarterly Journal of Economics")
               @@ ("amer econ rev" :> "American Economic Review")
               @@ ("american economic review" :> "American Economic Review")
               @@ ("rev econ stat" :> "Review of Economics and Statistics")
               @@ ("review of economics and statistics" :>
                      "Review of Economics and Statistics")
               @@ ("journal of the european economic association" :>
                      "Journal of the European Economic Association")
               @@ ("journal of economic literature" :> "Journal of Economic Literature")
               @@ ("rev econ stud" :> "Review of Economic Studies")
               @@ ("review of economic studies" :> "Review of Economic Studies")
               @@ ("j finance" :> "Journal of Finance")
               @@ ("journal of finance" :> "Journal of Finance")
               @@ ("journal of financial economics" :>
                      "Journal of Financial Economics")
           journal_lower == LowerCase(StripWhite(entry.journal))
           known == {k \in DOMAIN JOURNAL_MAPPINGS : Chars(k) = journal_lower}
       IN bib' = IF "journal" \in DOMAIN entry /\ known # {}
                 THEN <<[entry EXCEPT
                           !.journal = Chars(JOURNAL_MAPPINGS[CHOOSE k \in known : TRUE])]>>
                 ELSE bib
    /\ pc' = "apply_title_case"
    /\ UNCHANGED toolVars /\ UNCHANGED scanVars
    /\ UNCHANGED <<tool, args, reply, retry_after, requests, doi_client, procs>>

\* apply_title_case
ApplyTitleCase ==
    /\ pc = "apply_title_case"
    /\ bib' = IF "title" \in DOMAIN bib[1]
              THEN <<[bib[1] EXCEPT !.title = TitleCased(bib[1].title)]>>
              ELSE bib
    /\ pc' = "prune_fields"
    /\ UNCHANGED toolVars /\ UNCHANGED scanVars
    /\ UNCHANGED <<tool, args, reply, retry_after, requests, doi_client, procs>>

\* prune_fields
PruneFields ==
    /\ pc = "prune_fields"
    /\ LET JUNK_FIELDS == {"abstract", "keywords", "issn", "file",
                           "mendeley-groups", "mendeley-tags", "annotation",
                           "note"}
       IN bib' = <<[f \in DOMAIN bib[1] \ JUNK_FIELDS |-> bib[1][f]]>>
    /\ pc' = "handle_url_doi"
    /\ UNCHANGED toolVars /\ UNCHANGED scanVars
    /\ UNCHANGED <<tool, args, reply, retry_after, requests, doi_client, procs>>

\* handle_url_doi
HandleUrlDoi ==
    /\ pc = "handle_url_doi"
    /\ LET entry_type == IF "ENTRYTYPE" \in DOMAIN bib[1]
                         THEN LowerCase(bib[1].ENTRYTYPE) ELSE <<>>
       IN bib' = IF entry_type \in {Chars("techreport"), Chars("unpublished")}
                 THEN bib
                 ELSE IF entry_type = Chars("article")
                 THEN <<[f \in DOMAIN bib[1] \ {"url", "urldate"} |-> bib[1][f]]>>
                 ELSE bib
    /\ pc' = "validate_entry"
    /\ UNCHANGED toolVars /\ UNCHANGED scanVars
    /\ UNCHANGED <<tool, args, reply, retry_after, requests, doi_client, procs>>

\* validate_entry and the return of clean_entry: the result is the list of
\* the fields reported missing
ValidateEntry ==
    /\ pc = "validate_entry"
    /\ LET entry == bib[1]
           entry_type == IF "ENTRYTYPE" \in DOMAIN entry
                         THEN LowerCase(entry.ENTRYTYPE) ELSE <<>>
           Missing(fs, name) == IF fs \cap DOMAIN entry = {} THEN <<name>>
                                ELSE <<>>
       IN response' = [result |->
              Missing({"author", "editor"}, "author or editor")
              \o Missing({"year"}, "year")
              \o Missing({"title"}, "title")
              \o (IF entry_type = Chars("article")
                  THEN Missing({"journal"}, "journal")
                  ELSE IF entry_type = Chars("techreport")
                  THEN Missing({"institution"}, "institution")
                  ELSE IF entry_type = Chars("book")
                  THEN Missing({"publisher"}, "publisher")
                  ELSE IF entry_type \in {Chars("inproceedings"),
                                          Chars("incollection")}
                  THEN Missing({"booktitle"}, "booktitle")
                  ELSE <<>>)]
    /\ pc' = "returned"
    /\ UNCHANGED <<exists, error, history>> /\ UNCHANGED scanVars
    /\ UNCHANGED callVars

NextJanitor ==
    \/ EnsureNberFormat
    \/ StandardizeJournalNames
    \/ ApplyTitleCase
    \/ PruneFields
    \/ HandleUrlDoi
    \/ ValidateEntry

SpecJanitor == InitJanitor /\ [][NextJanitor]_vars

(***************************************************************************)
(* Vocabulary of the properties, stated on the document itself.            *)
(***************************************************************************)
\* the line carries "##" followed by whitespace
TwoHashHeading(line) ==
    \E i \in 1..Len(line) :
        HasAt(line, i, <<"#", "#">>) /\ i + 2 <= Len(line) /\ line[i + 2] \in Space

\* a two-hash heading whose text after the marker contains the word w
HeadingTextContains(line, w) ==
    \E i \in 1..Len(line) :
        /\ HasAt(line, i, <<"#", "#">>)
        /\ i + 2 <= Len(line)
        /\ line[i + 2] \in Space
        /\ \E k \in (i + 3)..Len(line) : HasAt(line, k, w)

AcknowledgLower == Chars("acknowledg")

AcknowledgUpper == Chars("Acknowledg")

\* heading text containing "acknowledg" or "Acknowledg"
AckHeading(line) == \/ HeadingTextContains(line, AcknowledgLower)
                    \/ HeadingTextContains(line, AcknowledgUpper)

\* heading text containing "acknowledg" in any letter case
AckHeadingAnyCase(line) == HeadingTextContains(LowerCase(line), AcknowledgLower)

\* line k lies in an acknowledgments section: from an acknowledgments
\* heading up to the line before the next two-hash heading
InAckSection(k) ==
    \E h \in 1..k : /\ AckHeading(lines[h])
                    /\ \A j \in (h + 1)..k : ~TwoHashHeading(lines[j])

\* the line holds text that either pattern matches
HasBareCitation(line) == LineCitations(line, 1) # <<>>

CitedLines == {citations[i].line : i \in 1..Len(citations)}

\* the loop is about to process line n
AtLine(n) == pc = "loop" /\ line_num < Len(lines) /\ n = line_num + 1

(***************************************************************************)
(* C1: no citation is reported from a line inside an acknowledgments       *)
(* section, i.e. from an acknowledgments heading line or from any line     *)
(* after it and before the next two-hash heading line.                     *)
(***************************************************************************)
C1_NoCitationInAcknowledgments == \A k \in CitedLines : ~InAckSection(k)

\* a section whose inner line holds a bare citation is closed by a heading
\* that is scanned and reports its own citation
C1_Witness ==
    /\ pc = "done"
    /\ \E h, j, k \in 1..Len(lines) :
         /\ h < j /\ j < k
         /\ AckHeading(lines[h])
         /\ InAckSection(j) /\ HasBareCitation(lines[j])
         /\ TwoHashHeading(lines[k])
         /\ k \in CitedLines

(***************************************************************************)
(* C2 as stated: while the acknowledgments flag is set, every line with a  *)
(* two-hash heading clears the flag, whatever the heading says, and that   *)
(* line is not skipped but scanned for citations (as any line outside the  *)
(* section is: unless the bibliography tracker or the line filter drop it).*)
(***************************************************************************)
\* the line carries nothing that the bibliography tracker or the line
\* filter acts on
PlainLine(line) == ~BibBegin(line) /\ ~BibEnd(line) /\ ~AlreadyCited(line)

C2_AnyHeadingEndsSection ==
    [][\A n \in 1..Len(lines) :
         (AtLine(n) /\ in_acknowledgments /\ TwoHashHeading(lines[n]))
            => /\ ~in_acknowledgments'
               /\ (PlainLine(lines[n]) /\ ~in_bibliography) => n \in scanned']_vars

(***************************************************************************)
(* C2 amended: while the acknowledgments flag is set, a two-hash heading   *)
(* whose text does not contain "Acknowledg"/"acknowledg" clears the flag   *)
(* and is scanned exactly when it is outside a bibliography block and      *)
(* carries no bibliography marker, "@" or "\cite"; a two-hash heading      *)
(* whose text does contain it keeps the flag set and is not scanned.       *)
(***************************************************************************)
C2_OtherHeadingEndsSection ==
    [][\A n \in 1..Len(lines) :
         (AtLine(n) /\ in_acknowledgments /\ TwoHashHeading(lines[n]))
            => IF AckHeading(lines[n])
               THEN in_acknowledgments' /\ n \notin scanned'
               ELSE /\ ~in_acknowledgments'
                    /\ n \in scanned' <=> (PlainLine(lines[n]) /\ ~in_bibliography)]_vars

\* a section was closed by a heading that was scanned and reported a
\* citation, after an acknowledgments heading inside the section was skipped
C2_Witness ==
    /\ ~in_acknowledgments
    /\ \E h, j \in 1..line_num :
         /\ h < j /\ j < line_num
         /\ AckHeading(lines[h]) /\ AckHeading(lines[j])
         /\ TwoHashHeading(lines[line_num]) /\ ~AckHeading(lines[line_num])
         /\ InAckSection(line_num - 1)
         /\ line_num \in scanned
         /\ line_num \in CitedLines

(***************************************************************************)
(* C3 as stated: every two-hash heading whose text contains "acknowledg"   *)
(* in any letter case sets the acknowledgments flag and is not scanned.    *)
(***************************************************************************)
C3_AnyCaseHeadingStartsSection ==
    [][\A n \in 1..Len(lines) :
         (AtLine(n) /\ AckHeadingAnyCase(lines[n]))
            => (in_acknowledgments' /\ n \notin scanned')]_vars

(***************************************************************************)
(* C4 as stated: no citation is reported from a line with the begin        *)
(* marker, from a line with the end marker, or from a line between a begin *)
(* marker and the end marker that follows it.                              *)
(***************************************************************************)
\* line k lies strictly between a begin-marker line and the first
\* end-marker line after it
InBibBlock(k) ==
    \E b \in 1..(k - 1) :
        /\ BibBegin(lines[b])
        /\ \A j \in (b + 1)..k : ~BibEnd(lines[j])
        /\ \E e \in (k + 1)..Len(lines) : BibEnd(lines[e])

C4_NoCitationInBibliography ==
    \A k \in CitedLines :
        ~BibBegin(lines[k]) /\ ~BibEnd(lines[k]) /\ ~InBibBlock(k)

(***************************************************************************)
(* C5 as stated: after an acknowledgments heading that no two-hash heading *)
(* follows, and after a begin marker that no end marker follows, no        *)
(* citation is reported from any later line of the document.               *)
(***************************************************************************)
\* line k comes after a section opener that is never closed
AfterUnclosed(k) ==
    \/ \E h \in 1..(k - 1) :
          /\ AckHeading(lines[h])
          /\ \A j \in (h + 1)..Len(lines) : ~TwoHashHeading(lines[j])
    \/ \E b \in 1..(k - 1) :
          /\ BibBegin(lines[b])
          /\ \A j \in (b + 1)..Len(lines) : ~BibEnd(lines[j])

C5_UnclosedProtectsToEnd == \A k \in CitedLines : ~AfterUnclosed(k)

(***************************************************************************)
(* C6: no citation is reported from a line that contains "@" or "\cite".   *)
(***************************************************************************)
C6_NoCitationFromCitedLine ==
    \A k \in CitedLines :
        ~Contains(lines[k], <<"@">>) /\ ~Contains(lines[k], CiteCommand)

\* a line with "@" and a line with "\cite", both holding a bare citation and
\* outside every acknowledgments section and bibliography block, were passed
\* over
C6_Witness ==
    /\ pc = "done"
    /\ citations = <<>>
    /\ \E j, k \in 1..Len(lines) :
         /\ Contains(lines[j], <<"@">>) /\ HasBareCitation(lines[j])
         /\ Contains(lines[k], CiteCommand) /\ HasBareCitation(lines[k])
    /\ \A k \in 1..Len(lines) :
         ~AckHeading(lines[k]) /\ ~BibBegin(lines[k]) /\ ~BibEnd(lines[k])

(***************************************************************************)
(* C7: in the returned list line numbers never decrease; within a line     *)
(* every narrative citation precedes every parenthetical one; within a     *)
(* line and a family columns increase strictly and spans do not overlap.   *)
(***************************************************************************)
C7_CitationOrder ==
    \A i, j \in 1..Len(citations) :
        i < j =>
          /\ citations[i].line <= citations[j].line
          /\ citations[i].line = citations[j].line =>
               /\ ~(/\ citations[i].citation_type = "parenthetical"
                    /\ citations[j].citation_type = "narrative")
               /\ citations[i].citation_type = citations[j].citation_type =>
                    /\ citations[i].column < citations[j].column
                    /\ citations[i].column + Len(citations[i].text)
                         <= citations[j].column

\* two narrative citations of one line are followed by a parenthetical one
\* that stands before them in the line, and a later line is cited as well
C7_Witness ==
    /\ pc = "done"
    /\ \E i, j, k, l \in 1..Len(citations) :
         /\ i < j /\ j < k /\ k < l
         /\ citations[i].line = citations[j].line
         /\ citations[j].line = citations[k].line
         /\ citations[i].citation_type = "narrative"
         /\ citations[j].citation_type = "narrative"
         /\ citations[k].citation_type = "parenthetical"
         /\ citations[k].column < citations[i].column
         /\ citations[k].line < citations[l].line

(***************************************************************************)
(* C8: a parenthesised span whose whole content is four digits, a hyphen   *)
(* and four digits is never reported, by either family.                    *)
(***************************************************************************)
IsYearRange(t) == /\ Len(t) = 9
                  /\ \A m \in {1, 2, 3, 4, 6, 7, 8, 9} : t[m] \in Digit
                  /\ t[5] = "-"

\* what stands between the first "(" of a match and its closing ")"
ParenContent(text) == SubSeq(text, Find(text, <<"(">>) + 1, Len(text) - 1)

C8_NoYearRangeReported ==
    \A i \in 1..Len(citations) :
        /\ ~IsYearRange(ParenContent(citations[i].text))
        /\ citations[i].citation_type = "parenthetical" =>
             ~IsYearRange(Strip(ParenContent(citations[i].text)))

\* a scanned line held a narrative match on a year range, which was dropped,
\* next to a citation that was kept
C8_Witness ==
    /\ pc = "done"
    /\ Len(lines) = 1
    /\ 1 \in scanned
    /\ citations # <<>>
    /\ LET ms == NarrativeMatches(lines[1], 1)
       IN \E m \in 1..Len(ms) :
            /\ IsYearRange(ParenContent(MatchText(lines[1], ms[m])))
            /\ \A i \in 1..Len(citations) : citations[i].column # ms[m].start - 1

(***************************************************************************)
(* C9 as stated: no author of a reported citation, of either type, equals  *)
(* "et", "al", "and" or "&" when compared case-insensitively.              *)
(***************************************************************************)
C9_NoConjunctionAuthor ==
    \A i \in 1..Len(citations) :
        \A a \in 1..Len(citations[i].authors) :
            LowerCase(citations[i].authors[a])
               \notin {<<"e", "t">>, <<"a", "l">>, <<"a", "n", "d">>, <<"&">>}

(***************************************************************************)
(* C10 as stated: no author of a reported citation, of either type, ends   *)
(* with " and".                                                            *)
(***************************************************************************)
C10_NoTrailingAnd ==
    \A i \in 1..Len(citations) :
        \A a \in 1..Len(citations[i].authors) :
            ~EndsWith(citations[i].authors[a], <<" ", "a", "n", "d">>)

(***************************************************************************)
(* C11 as stated: the prefix of a parenthetical citation is the chain of   *)
(* signal phrases its bracketed content begins with (each followed by      *)
(* whitespace), taken verbatim as one prefix; it is empty when the content *)
(* does not begin with a signal phrase followed by whitespace.             *)
(***************************************************************************)
\* what stands between the outer brackets of a parenthetical citation
BracketedContent(text) == SubSeq(text, 2, Len(text) - 1)

\* position after a signal phrase that starts at i and has whitespace after
\* it, 0 when there is none
SignalPhraseEnd(t, i) ==
    LET ends == {i + Len(w) : w \in {w \in SignalPhrases :
                                        /\ HasAt(LowerCase(t), i, w)
                                        /\ i + Len(w) <= Len(t)
                                        /\ t[i + Len(w)] \in Space}}
    IN IF ends = {} THEN 0 ELSE CHOOSE e \in ends : TRUE

\* position after the last phrase of the chain that starts at i
RECURSIVE ChainEnd(_, _, _)
ChainEnd(t, i, last) ==
    LET e == SignalPhraseEnd(t, i)
    IN IF e = 0 THEN last ELSE ChainEnd(t, RunEnd(t, e, Space), e)

ChainedPrefix(t) == SubSeq(t, 1, ChainEnd(t, 1, 1) - 1)

C11_PrefixIsPhraseChain ==
    \A i \in 1..Len(citations) :
        citations[i].citation_type = "parenthetical" =>
            citations[i].prefix = ChainedPrefix(BracketedContent(citations[i].text))

(***************************************************************************)
(* C12 as stated: the suffix of a parenthetical citation is the trimmed    *)
(* text after the last semicolon of its bracketed content, and empty when  *)
(* the content has no semicolon.                                           *)
(***************************************************************************)
\* position of the last ";" of t, 0 when there is none
LastSemicolon(t) ==
    IF Contains(t, <<";">>)
    THEN CHOOSE i \in 1..Len(t) :
           t[i] = ";" /\ \A k \in (i + 1)..Len(t) : t[k] # ";"
    ELSE 0

TextAfterLastSemicolon(t) ==
    IF LastSemicolon(t) = 0 THEN <<>>
    ELSE Strip(SubSeq(t, LastSemicolon(t) + 1, Len(t)))

C12_SuffixAfterLastSemicolon ==
    \A i \in 1..Len(citations) :
        citations[i].citation_type = "parenthetical" =>
            citations[i].suffix
               = TextAfterLastSemicolon(BracketedContent(citations[i].text))

(***************************************************************************)
(* C13 as stated: a line that is one enclosing parenthesis with a nested   *)
(* "Author (Year)" form inside yields exactly one citation, parenthetical, *)
(* whose text is the whole enclosing span.                                 *)
(***************************************************************************)
\* the line is "( ... Name (dddd) ... )" with no other bracket before the
\* nested year
NestedAuthorYear(line) ==
    /\ Len(line) >= 10
    /\ line[1] = "(" /\ line[Len(line)] = ")"
    /\ \E k \in 4..(Len(line) - 6) :
         /\ line[k] = "("
         /\ \A m \in 1..4 : line[k + m] \in Digit
         /\ line[k + 5] = ")"
         /\ line[k - 1] \in Space /\ line[k - 2] \in Lower
         /\ \A m \in 2..(k - 1) : line[m] \notin {"(", ")"}
         /\ \A m \in (k + 6)..(Len(line) - 1) : line[m] \notin {"(", ")"}

C13_NestedYearIsOneParenthetical ==
    (pc = "done" /\ Len(lines) = 1 /\ NestedAuthorYear(lines[1]))
        => /\ Len(citations) = 1
           /\ citations[1].citation_type = "parenthetical"
           /\ citations[1].text = lines[1]

(***************************************************************************)
(* C14: within a session, any two calls that scanned the same document     *)
(* returned the same citation sequence, whatever was scanned in between.   *)
(***************************************************************************)
\* call i of the session returned a citation list
ReturnedCitations(i) == "result" \in DOMAIN history[i].response

C14_SameDocumentSameCitations ==
    \A i, j \in 1..Len(history) :
        (/\ ReturnedCitations(i) /\ ReturnedCitations(j)
         /\ history[i].content = history[j].content)
            => history[i].response.result = history[j].response.result

\* a document with a citation was scanned before and after a document that
\* ends inside a protected section
C14_Witness ==
    /\ Len(history) = 3
    /\ ReturnedCitations(1) /\ ReturnedCitations(2) /\ ReturnedCitations(3)
    /\ history[1].content = history[3].content
    /\ history[1].response.result # <<>>
    /\ history[2].content # history[1].content
    /\ history[2].response.result = <<>>
    /\ \E k \in 1..Len(Split(history[2].content)) :
          HasBareCitation(Split(history[2].content)[k])

(***************************************************************************)
(* C15: a call on a path that does not exist raises FileNotFoundError and  *)
(* the tool answers with the code "file_not_found"; every call in which    *)
(* the client raised answers with a tagged error and no citation list.     *)
(***************************************************************************)
C15_MissingPathIsNotFoundOnly ==
    \A i \in 1..Len(history) :
        /\ ~history[i].exists =>
              /\ history[i].error = "FileNotFoundError"
              /\ "error" \in DOMAIN history[i].response
              /\ history[i].response.error = "file_not_found"
        /\ history[i].error # "none" =>
              /\ "error" \in DOMAIN history[i].response
              /\ ~ReturnedCitations(i)

\* a session held a call on a missing path, a call whose read failed and a
\* call that returned citations
C15_Witness ==
    \E i, j, k \in 1..Len(history) :
        /\ ~history[i].exists /\ history[i].response.error = "file_not_found"
        /\ history[j].error \in ReadErrors /\ history[j].response.error = "scan_error"
        /\ ReturnedCitations(k) /\ history[k].response.result # <<>>

(***************************************************************************)
(* C16: every tool function of both servers converts every exception its   *)
(* client method can raise into a tagged JSON result with an error code    *)
(* and a message: no exception propagates out of a tool call.              *)
(***************************************************************************)
C16_NoExceptionLeavesATool == pc # "propagated"

(***************************************************************************)
(* C20: _handle_response classifies a response by its status code alone:   *)
(* 429 raises RateLimitError carrying the Retry-After header as an integer *)
(* (None when the header is absent), 404 raises NotFoundError, any other   *)
(* status >= 400 raises APIError, a status below 400 returns the body.     *)
(***************************************************************************)
Handled == tool \in ResponseTools /\ pc \in {"raised", "returned"}
                                  /\ error # "ConnectError"

C20_ClassifiedByStatus ==
    Handled =>
        /\ reply.status = 429 =>
              /\ pc = "raised"
              /\ error = "RateLimitError"
              /\ reply.retry_after_raw = <<>> => retry_after = <<>>
              /\ (reply.retry_after_raw # <<>>
                    /\ IsIntLiteral(reply.retry_after_raw[1])) =>
                     retry_after = <<IntOf(reply.retry_after_raw[1])>>
        /\ reply.status = 404 => pc = "raised" /\ error = "NotFoundError"
        /\ (reply.status >= 400 /\ reply.status \notin {404, 429}) =>
              pc = "raised" /\ error = "APIError"
        /\ reply.status < 400 => pc = "returned"

(***************************************************************************)
(* C17: the key that rekey_entry writes, produced by _generate_key, is not *)
(* one of existing_keys: it is the base key when that is free, otherwise   *)
(* the base key followed by the first of a, b, c, d, e, f that is free.    *)
(***************************************************************************)
Rekeyed == pc = "responded" /\ tool = "rekey_entry"
                            /\ "result" \in DOMAIN response

\* the key on the first line of an entry "@type{key,"
WrittenKey(entry) ==
    LET first == Split(entry)[1]
    IN SubSeq(first, Find(first, <<"{">>) + 1, Len(first) - 1)

\* the n-th candidate: the base key, then the base key with a letter
Candidate(base, n) == IF n = 0 THEN base ELSE base \o <<Suffixes[n]>>

C17_NewKeyIsFree ==
    Rekeyed =>
        LET key == WrittenKey(response.result)
            text == RStripBrace(Join(Tail(Split(StripWhite(args[1])))))
            base == BaseKey(BracedField(text, Chars("author")), YearField(text),
                            BracedField(text, Chars("title")))
        IN /\ key \notin args[2]
           /\ \E n \in 0..Len(Suffixes) :
                 /\ key = Candidate(base, n)
                 /\ \A j \in 0..(n - 1) : Candidate(base, j) \in args[2]

(***************************************************************************)
(* C18: for an input with a well-formed "@type{key" header, rekey_entry    *)
(* returns the same entry with only the key replaced: the type and every   *)
(* field, those on the header's line included, are unchanged and the old   *)
(* key is no longer the key; an input without the header is a ParseError.  *)
(***************************************************************************)
\* the stripped input with its key replaced by key
KeyReplaced(bibtex, key) ==
    LET e == StripWhite(bibtex)
        h == HeaderMatch(e)
    IN <<"@">> \o h[1] \o <<"{">> \o key
       \o SubSeq(e, Len(h[1]) + Len(h[2]) + 3, Len(e))

C18_OnlyKeyReplaced ==
    (pc = "responded" /\ tool = "rekey_entry") =>
        IF HeaderMatch(StripWhite(args[1])) # <<>>
        THEN /\ "result" \in DOMAIN response
             /\ response.result
                  = KeyReplaced(args[1], WrittenKey(response.result))
             /\ WrittenKey(response.result) # HeaderMatch(StripWhite(args[1]))[2]
        ELSE /\ "error" \in DOMAIN response
             /\ response.error = "parse_error"

(***************************************************************************)
(* C19: an add_entry call that fails leaves the .bib file unchanged.  A    *)
(* missing file raises FileNotFoundError whatever the entry; an entry      *)
(* without a parsable "@type{key" raises ParseError; an entry whose key is *)
(* in the file raises BibTeXError; only a call that passes the three       *)
(* checks appends the entry.  A failure to read or open the file is a      *)
(* failure of the call too, outside the three checks.                      *)
(***************************************************************************)
\* the file as it was when the call in progress began
FileBefore == history[Len(history)]

AddEnded == tool = "add_entry" /\ pc \in {"responded", "propagated"}

GetBibtexEnded == tool = "get_bibtex" /\ pc \in {"returned", "raised"}

C21_CrossrefThenDoiOrg ==
    tool = "get_bibtex" =>
        /\ Len(requests) <= 2
        /\ Len(requests) >= 1 => requests[1].host = "api.crossref.org"
        /\ Len(requests) = 2 =>
              requests[2].host = "doi.org" /\ requests[1].status # 200
        /\ pc = "returned" =>
              \E k \in 1..Len(requests) :
                 /\ requests[k].status = 200
                 /\ bib = <<requests[k].host>>
                 /\ \A j \in 1..(k - 1) : requests[j].status # 200
        /\ pc = "raised" =>
              /\ error = "ValueError"
              /\ Len(requests) = 2
              /\ \A k \in 1..2 : requests[k].status # 200
        /\ GetBibtexEnded =>
              (Len(requests) = 1 <=> requests[1].status = 200)

\* the transform endpoint answered 404 and doi.org gave the text
C21_Witness ==
    /\ tool = "get_bibtex"
    /\ pc = "returned"
    /\ Len(requests) = 2
    /\ requests[1].status = 404
    /\ bib = <<"doi.org">>

(***************************************************************************)
(* C30: the HTTP client that get_bibtex opens for doi.org is closed before *)
(* get_bibtex returns or raises, on every path.                            *)
(***************************************************************************)
C30_FallbackClientClosed == GetBibtexEnded => doi_client # "open"

(***************************************************************************)
(* C22: a non-null result of find_published_version is the search result   *)
(* with the highest title similarity (the earliest on ties), its           *)
(* similarity is above 0.5, it has a DOI and it carries a bibtex field; in *)
(* every other case the result is None.                                    *)
(***************************************************************************)
Published == /\ tool = "find_published_version"
             /\ \/ pc = "returned"
                \/ pc = "responded" /\ "result" \in DOMAIN response

\* similarity of each search result to the title asked for
Sims == [k \in 1..Len(args[2]) |-> TitleSimilarity(args[1], args[2][k].title)]

\* the results that must be returned: the earliest of the highest
\* similarity, if that is above one half and the result has a DOI
Qualifying ==
    LET sim == Sims
    IN {k \in 1..Len(args[2]) :
          /\ \A j \in 1..Len(args[2]) : sim[j][1] * sim[k][2] <= sim[k][1] * sim[j][2]
          /\ \A j \in 1..(k - 1) : sim[j][1] * sim[k][2] < sim[k][1] * sim[j][2]
          /\ 2 * sim[k][1] > sim[k][2]
          /\ args[2][k].doi # <<>>}

BracedGroups(title) ==
    {SubSeq(title, i, j) : <<i, j>> \in
        {p \in (1..Len(title)) \X (1..Len(title)) :
            /\ title[p[1]] = "{"
            /\ p[2] > p[1] + 1
            /\ title[p[2]] = "}"
            /\ \A k \in (p[1] + 1)..(p[2] - 1) : title[k] \notin {"{", "}"}}}

\* apply_title_case has run on an entry that has a title
TitleRecased ==
    /\ tool = "clean_entry"
    /\ pc \in {"prune_fields", "handle_url_doi", "validate_entry", "returned"}
    /\ "title" \in DOMAIN args[1]

\* C23: apply_title_case leaves every brace-delimited group of the title
\* verbatim in the result, whatever adjoins it, and leaves no placeholder
\* token in the result.
C23_BracedGroupsKept ==
    TitleRecased =>
        /\ \A g \in BracedGroups(args[1].title) : Contains(bib[1].title, g)
        /\ ~Contains(LowerCase(bib[1].title), Chars("__braced_"))

\* the entry as parsed is an article whose url names nber.org
NberArticle ==
    /\ tool = "clean_entry"
    /\ args[1].ENTRYTYPE = Chars("article")
    /\ "url" \in DOMAIN args[1]
    /\ Contains(LowerCase(args[1].url), Chars("nber.org"))

\* C29: clean_entry retypes NBER entries before it handles URLs: when
\* handle_url_doi starts, an article with an nber.org url is already a
\* techreport; when clean_entry has returned, an entry has url or urldate
\* only if its ENTRYTYPE is not 'article', the NBER article is a techreport
\* with the url it came with, and an entry that ends as an article has
\* neither url nor urldate nor a junk field.
C29_NberRetypedBeforeUrls ==
    /\ (NberArticle /\ pc = "handle_url_doi")
          => bib[1].ENTRYTYPE = Chars("techreport")
    /\ (tool = "clean_entry" /\ pc = "returned") =>
          /\ ({"url", "urldate"} \cap DOMAIN bib[1] # {}
                 => bib[1].ENTRYTYPE # Chars("article"))
          /\ NberArticle =>
                /\ bib[1].ENTRYTYPE = Chars("techreport")
                /\ "url" \in DOMAIN bib[1]
                /\ bib[1].url = args[1].url
          /\ bib[1].ENTRYTYPE = Chars("article") =>
                DOMAIN bib[1] \cap {"url", "urldate", "abstract", "keywords",
                                    "issn", "file", "mendeley-groups",
                                    "mendeley-tags", "annotation", "note"} = {}

\* an article with an nber.org url, a urldate and a note has been cleaned
\* into a techreport that keeps the url and has lost the note
C29_Witness ==
    /\ NberArticle
    /\ pc = "returned"
    /\ {"urldate", "note", "journal"} \subseteq DOMAIN args[1]
    /\ bib[1].ENTRYTYPE = Chars("techreport")
    /\ bib[1].url = args[1].url
    /\ "urldate" \in DOMAIN bib[1]
    /\ "note" \notin DOMAIN bib[1]

(***************************************************************************)
(* Positions of the reported citations and the section flags, stated on    *)
(* the lines read so far.                                                  *)
(***************************************************************************)
\* C24: every reported citation has as line the 1-based index, over all
\* lines of the document, of a line that passed the filters, as column the
\* 0-based offset of the match in that line, and as text the characters of
\* that line from column on.
C24_LineColumnText ==
    \A i \in 1..Len(citations) :
        LET c == citations[i]
        IN /\ c.line \in 1..Len(lines)
           /\ c.line \in scanned
           /\ c.column >= 0
           /\ c.text # <<>>
           /\ c.column + Len(c.text) <= Len(lines[c.line])
           /\ SubSeq(lines[c.line], c.column + 1, c.column + Len(c.text)) = c.text

\* a citation is reported from the third line, past a skipped first line,
\* at an offset inside the line
C24_Witness ==
    /\ pc = "done"
    /\ 1 \notin scanned
    /\ \E i \in 1..Len(citations) :
          /\ citations[i].line = 3
          /\ citations[i].column > 0

\* the lines read so far that carry a bibliography marker
BibMarkerLines ==
    {k \in 1..line_num : BibBegin(lines[k]) \/ BibEnd(lines[k])}

\* the lines read so far that carry a two-hash heading
HeadingLines == {k \in 1..line_num : HeadingMark(lines[k])}

Latest(S) == CHOOSE k \in S : \A j \in S : j <= k

\* the acknowledgments flag depends only on the headings read
AckFlagFollowsHeadings ==
    in_acknowledgments <=>
        (HeadingLines # {} /\ AckStart(lines[Latest(HeadingLines)]))

\* C25: the section flags are independent: after any prefix of lines the
\* bibliography flag is true iff the latest bibliography marker read is a
\* begin marker, whatever headings occurred, also on a line carrying both
\* kinds of marker; the acknowledgments flag depends only on the headings.
C25_FlagsIndependent ==
    /\ in_bibliography <=>
          (BibMarkerLines # {} /\ BibBegin(lines[Latest(BibMarkerLines)]))
    /\ AckFlagFollowsHeadings

\* the line read by this step holds '@' or '\cite'
ReadsCitedLine ==
    /\ line_num' = line_num + 1
    /\ AlreadyCited(lines[line_num'])

\* on a line that holds '@' or '\cite', the tracker acts as lines 139-156
\* order it: an acknowledgments heading sets its flag and ends the
\* iteration, another heading clears it, and only then a bibliography
\* marker sets or clears the other flag
TrackerActsOnCitedLines ==
    [][ReadsCitedLine =>
          LET line == lines[line_num']
          IN /\ AckStart(line) => in_acknowledgments'
             /\ (HeadingMark(line) /\ ~AckStart(line)) => ~in_acknowledgments'
             /\ (BibBegin(line) /\ ~AckStart(line)) => in_bibliography'
             /\ (BibEnd(line) /\ ~BibBegin(line) /\ ~AckStart(line))
                   => ~in_bibliography']_vars

\* C26: the section tracker acts on every line before the line filter: a
\* heading or a bibliography-marker line that also holds '@' or '\cite'
\* still sets or clears its flag.
C26_TrackerBeforeFilter ==
    [][ReadsCitedLine =>
          LET line == lines[line_num']
          IN /\ AckStart(line) => in_acknowledgments'
             /\ (HeadingMark(line) /\ ~AckStart(line)) => ~in_acknowledgments'
             /\ BibBegin(line) => in_bibliography'
             /\ (BibEnd(line) /\ ~BibBegin(line)) => ~in_bibliography']_vars

(***************************************************************************)
(* The keys of the .bib file over a session of add_entry calls.            *)
(***************************************************************************)
\* where re.findall(r"@\w+\{(\w+)", text) finds a key
KeyPositions(text) == {j \in 1..Len(text) : KeyAt(text, j) # <<>>}

\* no key occurs twice in the text
KeysDistinct(text) ==
    Cardinality(KeyPositions(text)) = Cardinality(FileKeys(text))

\* C27: the keys of the file stay pairwise distinct over any sequence of
\* add_entry calls, and a call that succeeds adds exactly one new key to
\* the file it found and removes none.
C27_KeysStayDistinct ==
    tool = "add_entry" =>
        /\ KeysDistinct(bib)
        /\ pc = "returned" =>
              LET before == history[Len(history)]
              IN /\ FileKeys(before) \subseteq FileKeys(bib)
                 /\ Cardinality(FileKeys(bib)) = Cardinality(FileKeys(before)) + 1
                 /\ Cardinality(KeyPositions(bib))
                       = Cardinality(KeyPositions(before)) + 1

(***************************************************************************)
(* Two add_entry calls at once.                                            *)
(***************************************************************************)
\* both calls have ended
BothEnded ==
    /\ procs # <<>>
    /\ pc \in {"responded", "propagated"}
    /\ procs[1].pc \in {"responded", "propagated"}

\* how many of the two calls reported success
Successes ==
    (IF pc = "responded" /\ "status" \in DOMAIN response THEN 1 ELSE 0)
    + (IF procs[1].pc = "responded" /\ "status" \in DOMAIN procs[1].response
       THEN 1 ELSE 0)

\* how often the calls' key occurs in the file
KeyCount ==
    Cardinality({j \in KeyPositions(bib) : KeyAt(bib, j) = EntryKey(args[1])})

\* C28: of two add_entry calls at once for entries with the same key, at
\* most one succeeds and the file ends with that key exactly once,
\* however their steps interleave.
C28_OneOfTwoSucceeds ==
    BothEnded =>
        /\ Successes <= 1
        /\ Successes = 1 => KeyCount = 1

====
